---- MODULE Spec2Model ----
(***************************************************************************)
(* Verification model of mcp-to-pi-tools' registration and output layer:   *)
(*   lib/registration.js  section locator, register / unregister, registry *)
(*   lib/output.js        manifest-aware output writer                     *)
(*   tool management      heading derivation, basic entries (part_000)  *)
(* Text is modelled character by character: a string is a sequence of      *)
(* one-character strings, offsets are 0-based as in the JavaScript source. *)
(***************************************************************************)
EXTENDS Integers, Sequences, FiniteSets, TLC

\* ------------------------------------------------------------------------
\* JavaScript string primitives used by the code
\* ------------------------------------------------------------------------

\* the line terminator
NL == "\n"

\* characters matched by \s that occur in the modelled alphabet
IsSpace(c) == c \in {" ", NL}

\* String.prototype.slice(from, to) with 0-based offsets, 0 <= from, to <= length
Slice(s, from, to) == IF to <= from THEN <<>> ELSE SubSeq(s, from + 1, to)

\* String.prototype.startsWith at a given 0-based offset
MatchesAt(s, sub, i) ==
  /\ i + Len(sub) <= Len(s)
  /\ \A k \in 1..Len(sub) : s[i + k] = sub[k]

\* String.prototype.indexOf: 0-based offset of the first occurrence, -1 if none
IndexOf(s, sub) ==
  LET hits == {i \in 0..(Len(s) - Len(sub)) : MatchesAt(s, sub, i)}
  IN  IF hits = {} THEN -1 ELSE CHOOSE i \in hits : \A j \in hits : i <= j

\* String.prototype.endsWith
EndsWith(s, sub) == Len(sub) <= Len(s) /\ MatchesAt(s, sub, Len(s) - Len(sub))

\* String.prototype.trim
Trim(s) ==
  LET keep == {i \in 1..Len(s) : ~IsSpace(s[i])}
  IN  IF keep = {} THEN <<>>
      ELSE SubSeq(s, CHOOSE i \in keep : \A j \in keep : i <= j,
                     CHOOSE i \in keep : \A j \in keep : j <= i)

\* String.prototype.replace(/\n{3,}/g, "\n\n"): a character is dropped when it
\* is a newline preceded by at least two newlines
CollapseNewlines(s) ==
  LET dropped(i) == /\ i >= 3
                    /\ s[i] = NL /\ s[i - 1] = NL /\ s[i - 2] = NL
      F[i \in 0..Len(s)] ==
        IF i = 0 THEN <<>>
        ELSE IF dropped(i) THEN F[i - 1] ELSE Append(F[i - 1], s[i])
  IN  F[Len(s)]

\* String.prototype.split("-")
RECURSIVE SplitHyphen(_)
SplitHyphen(s) ==
  LET i == IndexOf(s, <<"-">>)
  IN  IF i = -1 THEN <<s>>
      ELSE <<Slice(s, 0, i)>> \o SplitHyphen(Slice(s, i + 1, Len(s)))

\* Array.prototype.join(sep)
RECURSIVE Join(_, _)
Join(parts, sep) ==
  IF Len(parts) = 0 THEN <<>>
  ELSE IF Len(parts) = 1 THEN parts[1]
  ELSE parts[1] \o sep \o Join(Tail(parts), sep)

\* ------------------------------------------------------------------------
\* Section locator (lib/registration.js)
\* ------------------------------------------------------------------------

H3 == <<"#", "#", "#">>

\* 0-based offset of the end of the line that holds offset i (the offset of
\* the next line terminator, or the length): where a greedy .+ stops
EndOfLine(s, i) ==
  LET nls == {j \in i..(Len(s) - 1) : s[j + 1] = NL}
  IN  IF nls = {} THEN Len(s) ELSE CHOOSE j \in nls : \A k \in nls : j <= k

\* End offset of the match of /^###\s+.+$/m that starts at offset i, or -1.
\* \s+ is greedy and also matches line terminators, .+ does not: when the
\* whitespace run reaches the end of the text the engine backtracks to the
\* last whitespace character that is not a line terminator.
HeadingMatchEnd(s, i) ==
  IF ~(/\ (i = 0 \/ s[i] = NL)
       /\ MatchesAt(s, H3, i)
       /\ i + 3 < Len(s)
       /\ IsSpace(s[i + 4]))
  THEN -1
  ELSE LET nonws == {j \in (i + 4)..(Len(s) - 1) : ~IsSpace(s[j + 1])}
           blanks == {j \in (i + 4)..(Len(s) - 1) : s[j + 1] # NL}
       IN  IF nonws # {}
           THEN EndOfLine(s, CHOOSE j \in nonws : \A k \in nonws : j <= k)
           ELSE IF blanks # {}
           THEN EndOfLine(s, CHOOSE j \in blanks : \A k \in blanks : k <= j)
           ELSE -1

\* the value null of the source
Null == <<"null">>

\* extractHeading(content): the first match of /^###\s+.+$/m, or null
extractHeading(content) ==
  LET starts == {i \in 0..(Len(content) - 1) : HeadingMatchEnd(content, i) # -1}
  IN  IF starts = {} THEN Null
      ELSE LET i == CHOOSE i \in starts : \A j \in starts : i <= j
           IN  Slice(content, i, HeadingMatchEnd(content, i))

\* offset of the first match of /\n###\s+/ at or after offset from, or -1
NextHeadingIndex(s, from) ==
  LET hits == {i \in from..(Len(s) - 1) :
                 /\ MatchesAt(s, <<NL>> \o H3, i)
                 /\ i + 4 < Len(s)
                 /\ IsSpace(s[i + 5])}
  IN  IF hits = {} THEN -1 ELSE CHOOSE i \in hits : \A j \in hits : i <= j

\* the while loop of findSectionByHeading: step back over trailing newlines
RECURSIVE TrimEnd(_, _, _)
TrimEnd(s, startIndex, endIndex) ==
  IF endIndex > startIndex /\ s[endIndex] = NL
  THEN TrimEnd(s, startIndex, endIndex - 1)
  ELSE endIndex

\* findSectionByHeading without the loop that steps back over newlines
findSectionByHeading_NoTrim(fileContent, heading) ==
  LET startIndex == IndexOf(fileContent, heading)
      afterHeading == startIndex + Len(heading)
      next == NextHeadingIndex(fileContent, afterHeading)
      endIndex == IF next # -1 THEN next ELSE Len(fileContent)
  IN  IF startIndex = -1
      THEN [found |-> FALSE, start |-> -1, end |-> -1, content |-> <<>>]
      ELSE [found |-> TRUE, start |-> startIndex, end |-> endIndex,
            content |-> Slice(fileContent, startIndex, endIndex)]

\* findSectionByHeading(fileContent, heading): [found, start, end, content]
findSectionByHeading(fileContent, heading) ==
  LET startIndex == IndexOf(fileContent, heading)
      afterHeading == startIndex + Len(heading)
      next == NextHeadingIndex(fileContent, afterHeading)
      rawEnd == IF next # -1 THEN next ELSE Len(fileContent)
      endIndex == TrimEnd(fileContent, startIndex, rawEnd)
  IN  IF startIndex = -1
      THEN [found |-> FALSE, start |-> -1, end |-> -1, content |-> <<>>]
      ELSE [found |-> TRUE, start |-> startIndex, end |-> endIndex,
            content |-> Slice(fileContent, startIndex, endIndex)]

\* ------------------------------------------------------------------------
\* Heading derivation and basic entries (tool management module)
\* ------------------------------------------------------------------------

\* deriveHeading(name): `### ${displayName} Tools`, displayName being the
\* words of the name, each capitalised (w.charAt(0).toUpperCase() +
\* w.slice(1)), joined by spaces
deriveHeading(name) ==
  LET \* String.prototype.toUpperCase on one character of the modelled alphabet
      ToUpperCase(c) ==
        CASE c = "a" -> "A"
          [] c = "b" -> "B"
          [] c = "c" -> "C"
          [] c = "t" -> "T"
          [] c = "o" -> "O"
          [] c = "l" -> "L"
          [] c = "s" -> "S"
          [] c = "x" -> "X"
          [] OTHER   -> c
      Capitalize(w) == IF Len(w) = 0 THEN <<>> ELSE <<ToUpperCase(w[1])>> \o Tail(w)
      words == SplitHyphen(name)
  IN  H3 \o <<" ">> \o Join([i \in 1..Len(words) |-> Capitalize(words[i])], <<" ">>)
         \o <<" ", "T", "o", "o", "l", "s">>

\* getToolHeading(name)
getToolHeading(name) == deriveHeading(name)

\* s.replace(/\.js$/, "")
StripJs(s) == IF EndsWith(s, <<".", "j", "s">>) THEN Slice(s, 0, Len(s) - 3) ELSE s

\* generateBasicEntry(name, scripts): heading, blank line, one line per script
generateBasicEntry(name, scripts) ==
  LET line(sc) == <<"*", "*">> \o StripJs(sc) \o <<"*", "*", " ", "-", " ">>
                  \o name \o <<" ", "t", "o", "o", "l">>
      toolList == Join([i \in 1..Len(scripts) |-> line(scripts[i])], <<NL>>)
  IN  deriveHeading(name) \o <<NL, NL>> \o toolList

\* generateAgentsEntry with a display name that is not capitalised
generateAgentsEntry_NoCapital(name, groups, packageDescription) ==
  LET displayName(words) == Join(words, <<" ">>)
      \* the character U+0060, which a string of this language cannot hold
      Backquote == "BQ"
      toolList  == Join([i \in 1..Len(groups) |-> <<Backquote>> \o groups[i].filename \o <<Backquote>>],
                        <<",", " ">>)
      firstTool == IF Len(groups) > 0 THEN groups[1].filename ELSE <<"t", "o", "o", "l", ".", "j", "s">>
      words       == SplitHyphen(name)
      description == IF packageDescription = Null \/ Len(packageDescription) = 0
                     THEN <<"T", "o", "o", "l", "s", " ", "f", "o", "r", " ">> \o displayName(words) \o <<" ", "o", "p", "e", "r", "a", "t", "i", "o", "n", "s", ".">>
                     ELSE packageDescription
  IN  H3 \o <<" ">> \o displayName(words) \o <<" ", "T", "o", "o", "l", "s", NL>>
         \o description \o <<NL, NL>>
         \o <<"*", "*", "T", "o", "o", "l", "s", ":", "*", "*", " ">> \o toolList \o <<NL, NL>>
         \o <<Backquote, Backquote, Backquote, "b", "a", "s", "h", NL>>
         \o <<"~", "/", "a", "g", "e", "n", "t", "-", "t", "o", "o", "l", "s", "/">> \o name \o <<"/">> \o firstTool \o <<" ", "-", "-", "h", "e", "l", "p", NL>>
         \o <<Backquote, Backquote, Backquote, NL>>
         \o <<"F", "u", "l", "l", " ", "d", "o", "c", "s", ":", " ", Backquote, "~", "/", "a", "g", "e", "n", "t", "-", "t", "o", "o", "l", "s", "/">> \o name \o <<"/", "R", "E", "A", "D", "M", "E", ".", "m", "d", Backquote, NL>>

\* generateAgentsEntry(name, groups, packageDescription) of the generators
\* module: the entry that the generate command registers. The display name
\* is computed here as in deriveHeading, by code of its own; a missing or
\* empty package description is replaced by the default sentence.
generateAgentsEntry(name, groups, packageDescription) ==
  LET \* String.prototype.toUpperCase on one character of the modelled alphabet
      ToUpperCase(c) ==
        CASE c = "a" -> "A"
          [] c = "b" -> "B"
          [] c = "c" -> "C"
          [] c = "t" -> "T"
          [] c = "o" -> "O"
          [] c = "l" -> "L"
          [] c = "s" -> "S"
          [] c = "x" -> "X"
          [] OTHER   -> c
      Capitalize(w) == IF Len(w) = 0 THEN <<>> ELSE <<ToUpperCase(w[1])>> \o Tail(w)
      displayName(words) == Join([i \in 1..Len(words) |-> Capitalize(words[i])], <<" ">>)
      \* the character U+0060, which a string of this language cannot hold
      Backquote == "BQ"
      toolList  == Join([i \in 1..Len(groups) |-> <<Backquote>> \o groups[i].filename \o <<Backquote>>],
                        <<",", " ">>)
      firstTool == IF Len(groups) > 0 THEN groups[1].filename ELSE <<"t", "o", "o", "l", ".", "j", "s">>
      words       == SplitHyphen(name)
      description == IF packageDescription = Null \/ Len(packageDescription) = 0
                     THEN <<"T", "o", "o", "l", "s", " ", "f", "o", "r", " ">> \o displayName(words) \o <<" ", "o", "p", "e", "r", "a", "t", "i", "o", "n", "s", ".">>
                     ELSE packageDescription
  IN  H3 \o <<" ">> \o displayName(words) \o <<" ", "T", "o", "o", "l", "s", NL>>
         \o description \o <<NL, NL>>
         \o <<"*", "*", "T", "o", "o", "l", "s", ":", "*", "*", " ">> \o toolList \o <<NL, NL>>
         \o <<Backquote, Backquote, Backquote, "b", "a", "s", "h", NL>>
         \o <<"~", "/", "a", "g", "e", "n", "t", "-", "t", "o", "o", "l", "s", "/">> \o name \o <<"/">> \o firstTool \o <<" ", "-", "-", "h", "e", "l", "p", NL>>
         \o <<Backquote, Backquote, Backquote, NL>>
         \o <<"F", "u", "l", "l", " ", "d", "o", "c", "s", ":", " ", Backquote, "~", "/", "a", "g", "e", "n", "t", "-", "t", "o", "o", "l", "s", "/">> \o name \o <<"/", "R", "E", "A", "D", "M", "E", ".", "m", "d", Backquote, NL>>

\* ------------------------------------------------------------------------
\* Paths, presets and the registry store (lib/config.js, lib/registration.js)
\* A path is its sequence of segments; a leading "~" is the home shorthand.
\* ------------------------------------------------------------------------

\* PRESETS of lib/config.js
PRESETS ==
  [pi     |-> <<"~", ".pi", "agent", "AGENTS.md">>,
   claude |-> <<"~", ".claude", "CLAUDE.md">>,
   gemini |-> <<"~", ".gemini", "AGENTS.md">>,
   codex  |-> <<"~", ".codex", "AGENTS.md">>]

\* PRESET_PATHS = new Set(Object.values(PRESETS))
PRESET_PATHS == {PRESETS[k] : k \in DOMAIN PRESETS}

\* resolvePath(path): "~/rest" becomes join(homedir(), rest)
resolvePath(path) ==
  LET HomeDir == <<"home", "u">>
  IN  IF Len(path) >= 2 /\ path[1] = "~" THEN HomeDir \o Tail(path) ELSE path

\* The properties every object literal inherits from Object.prototype whose
\* names are lower-case: the name, and what reading it yields (a function,
\* an object: not a path).
ObjectPrototype ==
  {[key   |-> <<"c", "o", "n", "s", "t", "r", "u", "c", "t", "o", "r">>,
    value |-> <<"[Function: Object]">>],
   [key   |-> <<"_", "_", "p", "r", "o", "t", "o", "_", "_">>,
    value |-> <<"[Object: null prototype]">>]}

\* a registry record that does not exist
NoRecord ==
  [present |-> FALSE, hasCustomPaths |-> FALSE, customPaths |-> <<>>,
   hasPaths |-> FALSE, paths |-> <<>>, hasHeading |-> FALSE]

\* Array.prototype.includes
Includes(seq, x) == \E i \in 1..Len(seq) : seq[i] = x

\* loadRegistry(): the registrations the caller sees. The backing file is
\* absent, not JSON ("invalid"), JSON without a registrations object
\* ("noRegistrations") or a registry ("ok"); its timestamps are not modelled.
loadRegistry(reg) ==
  IF reg.kind \in {"absent", "invalid"}
  THEN [hasRegistrations |-> TRUE,
        registrations |-> [n \in DOMAIN reg.registrations |-> NoRecord]]
  ELSE [hasRegistrations |-> reg.kind = "ok", registrations |-> reg.registrations]

\* updateRegistry(name, path): [threw, registry]. saveFails is a failure of
\* saveRegistry's mkdirSync / writeFileSync. registrations[name] of a name
\* without a record of its own that Object.prototype defines reads the
\* inherited value: it is truthy, so no record is made, the path is pushed
\* onto a customPaths property of the inherited object, and JSON.stringify
\* saves the registrations without it.
updateRegistry(reg, name, path, saveFails) ==
  IF path \in PRESET_PATHS THEN [threw |-> FALSE, registry |-> reg]
  ELSE
    LET loaded   == loadRegistry(reg)
        old      == loaded.registrations[name]
        made     == IF old.present THEN old
                    ELSE [NoRecord EXCEPT !.present = TRUE, !.hasCustomPaths = TRUE]
        migrated == IF made.hasCustomPaths
                    THEN made
                    ELSE [made EXCEPT !.hasCustomPaths = TRUE,
                                      !.customPaths = IF made.hasPaths THEN made.paths ELSE <<>>,
                                      !.hasPaths = FALSE, !.paths = <<>>,
                                      !.hasHeading = FALSE]
        pushed   == IF Includes(migrated.customPaths, path) THEN migrated
                    ELSE [migrated EXCEPT !.customPaths = Append(@, path)]
        inherited == ~old.present /\ name \in {p.key : p \in ObjectPrototype}
    IN  IF ~loaded.hasRegistrations \/ saveFails
        THEN [threw |-> TRUE, registry |-> reg]
        ELSE IF inherited
        THEN [threw |-> FALSE,
              registry |-> [kind |-> "ok", registrations |-> loaded.registrations]]
        ELSE [threw |-> FALSE,
              registry |-> [kind |-> "ok",
                            registrations |-> [loaded.registrations EXCEPT ![name] = pushed]]]

\* ------------------------------------------------------------------------
\* Registration and unregistration engines (lib/registration.js)
\* A file is [dir, exists, content]: its parent directory exists, it exists,
\* its text. A fault is the filesystem call that fails: "mkdir", "read",
\* "write" (the target file cannot be opened for writing) or "save" (the
\* registry cannot be saved); "none" when every call succeeds.
\* ------------------------------------------------------------------------

\* registerEntry calling updateRegistry for an entry without heading as well
registerEntry_AlwaysRecords(file, reg, targetPath, entryContent, name, fault) ==
  LET heading         == extractHeading(entryContent)
      trimmedContent  == Trim(entryContent)
      afterMkdir      == [file EXCEPT !.dir = TRUE]
      existingContent == IF file.exists THEN file.content ELSE <<>>
      existing        == IF heading = Null
                         THEN [found |-> FALSE, start |-> -1, end |-> -1, content |-> <<>>]
                         ELSE findSectionByHeading(existingContent, heading)
      spliced         == Slice(existingContent, 0, existing.start)
                         \o trimmedContent
                         \o Slice(existingContent, existing.end, Len(existingContent))
      separator       == IF Len(existingContent) = 0 THEN <<>>
                         ELSE IF EndsWith(existingContent, <<NL, NL>>) THEN <<>>
                         ELSE IF EndsWith(existingContent, <<NL>>) THEN <<NL>>
                         ELSE <<NL, NL>>
      appended        == existingContent \o separator \o trimmedContent \o <<NL>>
      written(text)   == [dir |-> TRUE, exists |-> TRUE, content |-> text]
      saved           == updateRegistry(reg, name, targetPath, fault = "save")
      failed(f, w)    == [status |-> "error", file |-> f, registry |-> reg, wrote |-> w]
  IN  IF ~file.dir /\ fault = "mkdir" THEN failed(file, FALSE)
      ELSE IF file.exists /\ fault = "read" THEN failed(afterMkdir, FALSE)
      ELSE IF existing.found /\ Trim(existing.content) = trimmedContent
      THEN [status |-> "unchanged", file |-> afterMkdir, registry |-> reg, wrote |-> FALSE]
      ELSE IF fault = "write" THEN failed(afterMkdir, FALSE)
      ELSE IF existing.found
      THEN IF saved.threw THEN failed(written(spliced), TRUE)
           ELSE [status |-> "updated", file |-> written(spliced),
                 registry |-> saved.registry, wrote |-> TRUE]
      ELSE IF heading # Null /\ saved.threw THEN failed(written(appended), TRUE)
      ELSE [status |-> "created", file |-> written(appended),
            registry |-> saved.registry,
            wrote |-> TRUE]

\* registerEntry(targetPath, entryContent, name): [status, file, registry, wrote];
\* wrote tells whether writeFileSync replaced the target file; separator is
\* what is put between the old content and a new entry.
registerEntry(file, reg, targetPath, entryContent, name, fault) ==
  LET heading         == extractHeading(entryContent)
      trimmedContent  == Trim(entryContent)
      afterMkdir      == [file EXCEPT !.dir = TRUE]
      existingContent == IF file.exists THEN file.content ELSE <<>>
      existing        == IF heading = Null
                         THEN [found |-> FALSE, start |-> -1, end |-> -1, content |-> <<>>]
                         ELSE findSectionByHeading(existingContent, heading)
      spliced         == Slice(existingContent, 0, existing.start)
                         \o trimmedContent
                         \o Slice(existingContent, existing.end, Len(existingContent))
      separator       == IF Len(existingContent) = 0 THEN <<>>
                         ELSE IF EndsWith(existingContent, <<NL, NL>>) THEN <<>>
                         ELSE IF EndsWith(existingContent, <<NL>>) THEN <<NL>>
                         ELSE <<NL, NL>>
      appended        == existingContent \o separator \o trimmedContent \o <<NL>>
      written(text)   == [dir |-> TRUE, exists |-> TRUE, content |-> text]
      saved           == updateRegistry(reg, name, targetPath, fault = "save")
      failed(f, w)    == [status |-> "error", file |-> f, registry |-> reg, wrote |-> w]
  IN  IF ~file.dir /\ fault = "mkdir" THEN failed(file, FALSE)
      ELSE IF file.exists /\ fault = "read" THEN failed(afterMkdir, FALSE)
      ELSE IF existing.found /\ Trim(existing.content) = trimmedContent
      THEN [status |-> "unchanged", file |-> afterMkdir, registry |-> reg, wrote |-> FALSE]
      ELSE IF fault = "write" THEN failed(afterMkdir, FALSE)
      ELSE IF existing.found
      THEN IF saved.threw THEN failed(written(spliced), TRUE)
           ELSE [status |-> "updated", file |-> written(spliced),
                 registry |-> saved.registry, wrote |-> TRUE]
      ELSE IF heading # Null /\ saved.threw THEN failed(written(appended), TRUE)
      ELSE [status |-> "created", file |-> written(appended),
            registry |-> IF heading # Null THEN saved.registry ELSE reg,
            wrote |-> TRUE]

\* unregisterEntry without its existsSync guard: reading an absent file throws
unregisterEntry_NoExistsCheck(file, heading, fault) ==
  LET content    == file.content
      section    == findSectionByHeading(content, heading)
      newContent == Trim(CollapseNewlines(
                        Slice(content, 0, section.start)
                        \o Slice(content, section.end, Len(content)))) \o <<NL>>
  IN  IF ~file.exists \/ fault = "read"
      THEN [status |-> "error", file |-> file, wrote |-> FALSE]
      ELSE IF ~section.found THEN [status |-> "not_found", file |-> file, wrote |-> FALSE]
      ELSE IF fault = "write" THEN [status |-> "error", file |-> file, wrote |-> FALSE]
      ELSE [status |-> "removed", file |-> [file EXCEPT !.content = newContent],
            wrote |-> TRUE]

\* unregisterEntry(targetPath, heading): [status, file, wrote]
unregisterEntry(file, heading, fault) ==
  LET content    == file.content
      section    == findSectionByHeading(content, heading)
      newContent == Trim(CollapseNewlines(
                        Slice(content, 0, section.start)
                        \o Slice(content, section.end, Len(content)))) \o <<NL>>
  IN  IF ~file.exists THEN [status |-> "not_found", file |-> file, wrote |-> FALSE]
      ELSE IF fault = "read" THEN [status |-> "error", file |-> file, wrote |-> FALSE]
      ELSE IF ~section.found THEN [status |-> "not_found", file |-> file, wrote |-> FALSE]
      ELSE IF fault = "write" THEN [status |-> "error", file |-> file, wrote |-> FALSE]
      ELSE [status |-> "removed", file |-> [file EXCEPT !.content = newContent],
            wrote |-> TRUE]

\* ------------------------------------------------------------------------
\* The output writer (lib/output.js)
\* An output directory is [exists, files, manifest]. files maps a file name
\* to [exists, content, exec]; manifest is the manifest file: "absent",
\* "invalid" (not JSON), "noFiles" (JSON without a files list) or "valid"
\* with the list of generated files. The files argument of writeOutput is
\* the sequence of its entries [filename, content], in Object.entries order.
\* A fault [at, k] is the filesystem call that fails: "unlink" and "write"
\* fail in iteration k of their loop.
\* ------------------------------------------------------------------------

MANIFEST_FILE ==
  <<".", "m", "c", "p", "2", "c", "l", "i", "-", "m", "a", "n", "i", "f", "e", "s", "t",
    ".", "j", "s", "o", "n">>

\* a file that is not in the directory
NoFile == [exists |-> FALSE, content |-> "", exec |-> FALSE]

\* no manifest file
NoManifest == [kind |-> "absent", files |-> <<>>]

\* no filesystem call fails
NoFault == [at |-> "none", k |-> 0]

\* readManifest(resolvedDir): null when the manifest file is missing or is
\* not JSON, else the parsed object
readManifest(d) ==
  IF d.manifest.kind \in {"absent", "invalid"}
  THEN [isNull |-> TRUE, hasFiles |-> FALSE, files |-> <<>>]
  ELSE [isNull |-> FALSE, hasFiles |-> d.manifest.kind = "valid",
        files |-> d.manifest.files]

\* createManifest(packageName, files): the manifest written for the keys
createManifest(files) ==
  [kind |-> "valid", files |-> SelectSeq(files, LAMBDA f : f # MANIFEST_FILE)]

\* getUserFiles(resolvedDir, manifest): [threw, files]; spreading the files
\* list of a manifest that has none throws
getUserFiles(d, manifest) ==
  IF manifest.isNull \/ ~d.exists THEN [threw |-> FALSE, files |-> {}]
  ELSE IF ~manifest.hasFiles THEN [threw |-> TRUE, files |-> {}]
  ELSE [threw |-> FALSE,
        files |-> {f \in DOMAIN d.files :
                     d.files[f].exists /\ ~Includes(manifest.files, f)}]

\* Object.keys(files)
Keys(files) == [i \in 1..Len(files) |-> files[i].filename]

\* WriteFile without the chmodSync of scripts
WriteFile_NoChmod(d, filename, content) ==
  IF filename = MANIFEST_FILE
  THEN [d EXCEPT !.manifest = [kind |-> "invalid", files |-> <<>>]]
  ELSE [d EXCEPT !.files[filename] =
          [exists |-> TRUE, content |-> content, exec |-> d.files[filename].exec]]

\* writeFileSync(filePath, content) and the chmodSync of a script
\* (filename.endsWith(".js") || filename.endsWith(".sh")); text written over
\* the manifest file is not a manifest
WriteFile(d, filename, content) ==
  LET IsScript == \/ EndsWith(filename, <<".", "j", "s">>)
                  \/ EndsWith(filename, <<".", "s", "h">>)
  IN  IF filename = MANIFEST_FILE
      THEN [d EXCEPT !.manifest = [kind |-> "invalid", files |-> <<>>]]
      ELSE [d EXCEPT !.files[filename] =
              [exists |-> TRUE, content |-> content,
               exec |-> IsScript \/ d.files[filename].exec]]

\* the first n iterations of the loop that writes the entries
RECURSIVE WriteEntries(_, _, _)
WriteEntries(d, files, n) ==
  IF n = 0 THEN d
  ELSE WriteFile(WriteEntries(d, files, n - 1), files[n].filename, files[n].content)

\* the first n iterations of the loop that unlinks the listed files
UnlinkListed(d, listed, n) ==
  [d EXCEPT !.files = [f \in DOMAIN d.files |->
     IF \E i \in 1..n : listed[i] = f THEN NoFile ELSE d.files[f]]]

\* writeOutput(outputDir, files, {dryRun, force}): [threw, message, dir, faulted]
writeOutput(d, files, dryRun, force, fault) ==
  LET existingManifest == readManifest(d)
      listed    == existingManifest.files
      userFiles == getUserFiles(d, existingManifest)
      managed   == d.exists /\ ~existingManifest.isNull
      emptyDir  == [exists |-> TRUE, files |-> [f \in DOMAIN d.files |-> NoFile],
                    manifest |-> NoManifest]
      removed   == [emptyDir EXCEPT !.exists = FALSE]
      unlinked  == UnlinkListed(d, listed, Len(listed))
      cleared   == IF managed THEN [unlinked EXCEPT !.manifest = NoManifest]
                   ELSE emptyDir
      written   == WriteEntries(cleared, files, Len(files))
      returned(x)  == [threw |-> FALSE, message |-> "none", dir |-> x, faulted |-> FALSE]
      refused(m)   == [threw |-> TRUE, message |-> m, dir |-> d, faulted |-> FALSE]
      failed(x)    == [threw |-> TRUE, message |-> "io", dir |-> x, faulted |-> TRUE]
  IN  IF dryRun THEN returned(d)
      ELSE IF d.exists /\ ~force THEN refused("Use --force to overwrite")
      ELSE IF managed /\ userFiles.threw THEN refused("TypeError")
      ELSE IF /\ managed /\ fault.at = "unlink" /\ fault.k \in 1..Len(listed)
              /\ UnlinkListed(d, listed, fault.k - 1).files[listed[fault.k]].exists
      THEN failed(UnlinkListed(d, listed, fault.k - 1))
      ELSE IF managed /\ fault.at = "unlinkManifest" THEN failed(unlinked)
      ELSE IF d.exists /\ ~managed /\ fault.at = "rm" THEN failed(d)
      ELSE IF ~managed /\ fault.at = "mkdir" THEN failed(removed)
      ELSE IF fault.at = "write" /\ fault.k \in 1..Len(files)
      THEN failed(WriteEntries(cleared, files, fault.k - 1))
      ELSE IF fault.at = "manifest" THEN failed(written)
      ELSE returned([written EXCEPT !.manifest = createManifest(Keys(files))])

\* exit codes of the command
EXIT_SUCCESS == 0
EXIT_ERROR == 1
EXIT_INVALID_ARGS == 2
EXIT_DISCOVERY_FAILED == 3
EXIT_GENERATION_FAILED == 4
EXIT_OUTPUT_FAILED == 5

\* outputExists(outputDir)
outputExists(d) == d.exists

\* ------------------------------------------------------------------------
\* Configuration policy (lib/config.js) and target selection
\* (lib/registration.js). A preset name is its sequence of characters. A
\* config is [register, registerPaths, symlink, symlinkDir, local,
\* allPresets, forceSymlink]; the CLI options are [register, registerPaths,
\* presets, local, allPresets, symlink, symlinkDir, forceSymlink], with
\* symlinkDir Null when --symlink-dir is not given.
\* ------------------------------------------------------------------------

\* DEFAULT_CONFIG of lib/config.js
DEFAULT_CONFIG ==
  [register |-> TRUE, registerPaths |-> <<>>, symlink |-> TRUE,
   symlinkDir |-> <<"~", "agent-tools", "bin">>,
   local |-> FALSE, allPresets |-> FALSE, forceSymlink |-> FALSE]

\* PRESET_PRIORITY of lib/config.js
PRESET_PRIORITY ==
  <<<<"~", ".pi", "agent", "AGENTS.md">>,
    <<"~", ".claude", "CLAUDE.md">>,
    <<"~", ".codex", "AGENTS.md">>,
    <<"~", ".gemini", "AGENTS.md">>>>

\* String.prototype.toLowerCase on one character of the modelled alphabet
ToLowerCase(c) ==
  CASE c = "P" -> "p"
    [] c = "I" -> "i"
    [] c = "C" -> "c"
    [] OTHER   -> c

\* the own property names of PRESETS, character by character
PresetKeys ==
  [pi     |-> <<"p", "i">>,
   claude |-> <<"c", "l", "a", "u", "d", "e">>,
   gemini |-> <<"g", "e", "m", "i", "n", "i">>,
   codex  |-> <<"c", "o", "d", "e", "x">>]

\* resolvePreset(name): PRESETS[name.toLowerCase()] || null
resolvePreset(name) ==
  LET key == [i \in 1..Len(name) |-> ToLowerCase(name[i])]
  IN  IF \E k \in DOMAIN PRESETS : PresetKeys[k] = key
      THEN PRESETS[CHOOSE k \in DOMAIN PRESETS : PresetKeys[k] = key]
      ELSE IF \E q \in ObjectPrototype : q.key = key
      THEN (CHOOSE q \in ObjectPrototype : q.key = key).value
      ELSE Null

\* Set.prototype.add on a Set kept as the list of its elements in insertion order
SetAdd(set, x) == IF Includes(set, x) THEN set ELSE Append(set, x)

\* xs.forEach(x => set.add(x))
RECURSIVE AddAll(_, _)
AddAll(set, xs) ==
  IF Len(xs) = 0 THEN set ELSE AddAll(SetAdd(set, Head(xs)), Tail(xs))

\* the loop of mergeWithCli over options.presets
RECURSIVE AddPresets(_, _)
AddPresets(set, presets) ==
  IF Len(presets) = 0 THEN set
  ELSE LET path == resolvePreset(Head(presets))
       IN  AddPresets(IF path # Null THEN SetAdd(set, path) ELSE set, Tail(presets))

\* mergeWithCli(config, options): the effective config
mergeWithCli(config, options) ==
  LET paths == AddPresets(AddAll(<<>>, options.registerPaths), options.presets)
  IN  [register      |-> IF options.register = FALSE THEN FALSE ELSE config.register,
       registerPaths |-> IF Len(paths) > 0 THEN paths ELSE config.registerPaths,
       local         |-> options.local,
       allPresets    |-> options.allPresets,
       symlink       |-> IF options.symlink = FALSE THEN FALSE ELSE config.symlink,
       symlinkDir    |-> IF options.symlinkDir # Null THEN options.symlinkDir
                         ELSE config.symlinkDir,
       forceSymlink  |-> IF options.forceSymlink THEN TRUE ELSE config.forceSymlink]

\* process.cwd()
Cwd == <<"w">>

\* LOCAL_FILE_PRIORITY of lib/registration.js
LOCAL_FILE_PRIORITY == <<"CLAUDE.md", "AGENTS.md">>

\* detectLocalFile(): existing is the set of paths for which existsSync holds
detectLocalFile(existing) ==
  IF \E i \in 1..Len(LOCAL_FILE_PRIORITY) : (Cwd \o <<LOCAL_FILE_PRIORITY[i]>>) \in existing
  THEN Cwd \o <<LOCAL_FILE_PRIORITY[
         CHOOSE i \in 1..Len(LOCAL_FILE_PRIORITY) :
           /\ (Cwd \o <<LOCAL_FILE_PRIORITY[i]>>) \in existing
           /\ \A j \in 1..(i - 1) : (Cwd \o <<LOCAL_FILE_PRIORITY[j]>>) \notin existing]>>
  ELSE Cwd \o <<"AGENTS.md">>

\* resolveAllPaths without the break that stops at the first existing preset
resolveAllPaths_NoBreak(existing, effectiveConfig) ==
  LET found   == SelectSeq(PRESET_PRIORITY, LAMBDA p : resolvePath(p) \in existing)
      presets == IF Len(effectiveConfig.registerPaths) > 0
                 THEN AddAll(<<>>, effectiveConfig.registerPaths)
                 ELSE found
  IN  IF effectiveConfig.local THEN SetAdd(presets, detectLocalFile(existing))
      ELSE presets

\* resolveAllPaths(effectiveConfig): the registration targets, in order
resolveAllPaths(existing, effectiveConfig) ==
  LET found   == SelectSeq(PRESET_PRIORITY, LAMBDA p : resolvePath(p) \in existing)
      presets == IF Len(effectiveConfig.registerPaths) > 0
                 THEN AddAll(<<>>, effectiveConfig.registerPaths)
                 ELSE IF effectiveConfig.allPresets THEN found
                 ELSE IF Len(found) > 0 THEN <<found[1]>>
                 ELSE <<>>
  IN  IF effectiveConfig.local THEN SetAdd(presets, detectLocalFile(existing))
      ELSE presets

\* ------------------------------------------------------------------------
\* The symlink manager (symlink manager part of lib/runner.js) and the shell
\* config manager (lib/shell-config.js). What is at a link path is
\* [kind, target]: "none", a "symlink" to target, a regular "file" or a
\* "dir"; live is the set of link targets that exist.
\* ------------------------------------------------------------------------

\* nothing at the link path
NoLink == [kind |-> "none", target |-> <<>>]

\* a symbolic link to target
LinkTo(target) == [kind |-> "symlink", target |-> target]

\* existsSync(linkPath): a symbolic link is followed
existsSync(link, live) ==
  \/ link.kind \in {"file", "dir"}
  \/ link.kind = "symlink" /\ link.target \in live

\* getSymlinkName(filename)
getSymlinkName(filename) == StripJs(filename)

\* createSymlink that removes an existing file whether or not force is set
createSymlink_AlwaysForce(link, live, targetPath, force) ==
  LET failed  == [success |-> FALSE, action |-> "none", link |-> link]
      created == [success |-> TRUE, action |-> "created", link |-> LinkTo(targetPath)]
  IN  IF existsSync(link, live)
      THEN IF link.kind = "symlink"
           THEN IF link.target = targetPath
                THEN [success |-> TRUE, action |-> "unchanged", link |-> link]
                ELSE created
           ELSE IF link.kind = "dir" THEN failed
           ELSE created
      ELSE IF link.kind # "none" THEN failed
      ELSE created

\* createSymlink(targetPath, linkPath, {force}): [success, action, link].
\* unlinkSync fails on a directory, symlinkSync on a path that is taken.
createSymlink(link, live, targetPath, force) ==
  LET failed  == [success |-> FALSE, action |-> "none", link |-> link]
      created == [success |-> TRUE, action |-> "created", link |-> LinkTo(targetPath)]
  IN  IF existsSync(link, live)
      THEN IF link.kind = "symlink"
           THEN IF link.target = targetPath
                THEN [success |-> TRUE, action |-> "unchanged", link |-> link]
                ELSE created
           ELSE IF ~force THEN failed
           ELSE IF link.kind = "dir" THEN failed
           ELSE created
      ELSE IF link.kind # "none" THEN failed
      ELSE created

\* createSymlinks(outputDir, files, symlinkDir, {force}) on a platform with
\* symlinks, the symlink directory being there: the links afterwards. dirs
\* maps a link name to what is at its path; the target of a script is the
\* pair of the output directory and the file name.
RECURSIVE createSymlinks(_, _, _, _, _)
createSymlinks(dirs, live, outputDir, keys, force) ==
  IF Len(keys) = 0 THEN dirs
  ELSE IF ~EndsWith(Head(keys), <<".", "j", "s">>)
  THEN createSymlinks(dirs, live, outputDir, Tail(keys), force)
  ELSE LET symlinkName == getSymlinkName(Head(keys))
           result == createSymlink(dirs[symlinkName], live, <<outputDir, Head(keys)>>, force)
       IN  createSymlinks([dirs EXCEPT ![symlinkName] = result.link], live,
                          outputDir, Tail(keys), force)

\* ensurePathConfigured(): the shell config afterwards. It is "unknown" (no
\* zsh or bash), "unconfigured" or "configured" (it mentions agent-tools/bin).
ensurePathConfigured(sh) == IF sh = "unconfigured" THEN "configured" ELSE sh

\* ------------------------------------------------------------------------
\* Batch registration (lib/registration.js) and the tool manager (tool
\* manager module of lib/). fsys maps a resolved path to its file, reg is the
\* registry backing file, toolDir the directory of the tool under
\* ~/agent-tools, lnks the symlink directory. A fault [at, k] makes the
\* filesystem call "at" fail in the k-th registerEntry or unregisterEntry
\* call of the operation.
\* ------------------------------------------------------------------------

\* the fault of the call that is made when k calls remain before the faulty one
FaultNow(fault) == IF fault.k = 1 THEN fault.at ELSE "none"

\* registerToAll(paths, entryContent, name): [results, fs, registry]; a
\* result is [path, action]
RECURSIVE registerToAll(_, _, _, _, _, _)
registerToAll(fsys, reg, paths, entryContent, name, fault) ==
  IF Len(paths) = 0 THEN [results |-> <<>>, fs |-> fsys, registry |-> reg]
  ELSE LET path == Head(paths)
           Both(result, rest) ==
             [results  |-> <<[path |-> path, action |-> result.status]>> \o rest.results,
              fs       |-> rest.fs,
              registry |-> rest.registry]
           After(result) ==
             Both(result,
                  registerToAll([fsys EXCEPT ![resolvePath(path)] = result.file],
                                result.registry, Tail(paths), entryContent, name,
                                [fault EXCEPT !.k = @ - 1]))
       IN  After(registerEntry(fsys[resolvePath(path)], reg, path, entryContent,
                               name, FaultNow(fault)))

\* AGENT_TOOLS_DIR = join(homedir(), "agent-tools"), as its segments
AGENT_TOOLS_DIR == <<<<"home">>, <<"u">>, <<"agent-tools">>>>

\* path.join(base, name) for an absolute base given by its segments: the
\* segments of the normalised path ("." and empty segments dropped, ".."
\* stepping up), and whether it ends with a separator, which normalisation
\* keeps
pathJoin(base, name) ==
  LET RECURSIVE Split(_)
      Split(s) ==
        LET i == IndexOf(s, <<"/">>)
        IN  IF i = -1 THEN <<s>>
            ELSE <<Slice(s, 0, i)>> \o Split(Slice(s, i + 1, Len(s)))
      RECURSIVE Walk(_, _)
      Walk(stack, parts) ==
        IF Len(parts) = 0 THEN stack
        ELSE IF Head(parts) = <<>> \/ Head(parts) = <<".">>
        THEN Walk(stack, Tail(parts))
        ELSE IF Head(parts) = <<".", ".">>
        THEN Walk(IF Len(stack) = 0 THEN stack ELSE SubSeq(stack, 1, Len(stack) - 1),
                  Tail(parts))
        ELSE Walk(Append(stack, Head(parts)), Tail(parts))
  IN  [segs  |-> Walk(base, Split(name)),
       slash |-> Len(name) > 0 /\ name[Len(name)] = "/"]

\* removeFromRegistry(name): [threw, registry]
removeFromRegistry(reg, name) ==
  LET loaded == loadRegistry(reg)
  IN  IF ~loaded.hasRegistrations THEN [threw |-> TRUE, registry |-> reg]
      ELSE IF name \in DOMAIN loaded.registrations /\ loaded.registrations[name].present
      THEN [threw |-> FALSE,
            registry |-> [kind |-> "ok",
                          registrations |-> [loaded.registrations EXCEPT ![name] = NoRecord]]]
      ELSE [threw |-> FALSE, registry |-> reg]

\* Object.keys(PRESETS), in insertion order
PresetNames == <<"pi", "claude", "gemini", "codex">>

\* Object.values(PRESETS)
PresetValues == [i \in 1..Len(PresetNames) |-> PRESETS[PresetNames[i]]]

\* checkRegistrationStatus(heading): the presets whose file holds the heading
checkRegistrationStatus(fsys, heading) ==
  SelectSeq(PresetNames,
            LAMBDA k : /\ fsys[resolvePath(PRESETS[k])].exists
                       /\ findSectionByHeading(fsys[resolvePath(PRESETS[k])].content,
                                               heading).found)

\* readdirSync(toolPath).filter(f => f.endsWith(".js")): the names come in
\* alphabetical order
Scripts(toolDir) ==
  SelectSeq(<<<<"r", ".", "m", "d">>, <<"s", ".", "s", "h">>, <<"t", ".", "j", "s">>>>,
            LAMBDA f : toolDir.files[f].exists /\ EndsWith(f, <<".", "j", "s">>))

\* removeSymlinksForTool(toolPath): the links into the tool directory are
\* deleted
removeSymlinksForTool(lnks, toolPath) ==
  [n \in DOMAIN lnks |->
     IF lnks[n].kind = "symlink" /\ lnks[n].target[1] = toolPath
     THEN [kind |-> "none", target |-> <<>>]
     ELSE lnks[n]]

\* createSymlinksForTool(toolPath): a link for each script of the directory
createSymlinksForTool(lnks, live, toolPath, toolDir) ==
  createSymlinks(lnks, live, toolPath, Scripts(toolDir), FALSE)

\* the loops of removeTool over the paths to unregister from: [fs, actions]
RECURSIVE UnregisterEach(_, _, _, _)
UnregisterEach(fsys, paths, heading, fault) ==
  IF Len(paths) = 0 THEN [fs |-> fsys, actions |-> <<>>]
  ELSE LET path == resolvePath(Head(paths))
           Both(result, rest) ==
             [fs |-> rest.fs, actions |-> <<result.status>> \o rest.actions]
           After(result) ==
             Both(result,
                  UnregisterEach([fsys EXCEPT ![path] = result.file], Tail(paths),
                                 heading, [fault EXCEPT !.k = @ - 1]))
       IN  After(unregisterEntry(fsys[path], heading, FaultNow(fault)))

\* removeTool(name, {dryRun}): [raised, success, fs, registry, dir, links,
\* actions]; actions are the outcomes of the unregisterEntry calls made, and
\* dropped tells whether removeFromRegistry, and then rmSync, was reached.
\* toolDir is the directory at join(AGENT_TOOLS_DIR, name), toolPath the
\* first half of the link targets into it.
removeTool(fsys, reg, toolDir, lnks, toolPath, name, dryRun, fault) ==
  LET heading     == getToolHeading(name)
      loaded      == loadRegistry(reg)
      untouched   == [raised |-> FALSE, success |-> FALSE, fs |-> fsys, registry |-> reg,
                      dir |-> toolDir, links |-> lnks, actions |-> <<>>, dropped |-> FALSE]
      unlinked    == removeSymlinksForTool(lnks, toolPath)
      joined      == pathJoin(AGENT_TOOLS_DIR, name)
      \* toolPath.startsWith(AGENT_TOOLS_DIR + "/")
      inside      == \/ /\ Len(joined.segs) > Len(AGENT_TOOLS_DIR)
                        /\ SubSeq(joined.segs, 1, Len(AGENT_TOOLS_DIR)) = AGENT_TOOLS_DIR
                     \/ joined.segs = AGENT_TOOLS_DIR /\ joined.slash
      regEntry    == IF name \in DOMAIN loaded.registrations
                     THEN loaded.registrations[name] ELSE NoRecord
      customPaths == IF regEntry.present /\ regEntry.hasCustomPaths THEN regEntry.customPaths
                     ELSE IF regEntry.present /\ regEntry.hasPaths THEN regEntry.paths
                     ELSE <<>>
      removed     == removeFromRegistry(reg, name)
      Removed(presetsDone, customDone) ==
        [raised |-> FALSE, success |-> TRUE, fs |-> customDone.fs,
         registry |-> removed.registry,
         dir |-> [toolDir EXCEPT !.exists = FALSE,
                                 !.files = [f \in DOMAIN toolDir.files |-> NoFile],
                                 !.manifest = NoManifest],
         links |-> unlinked, actions |-> presetsDone.actions \o customDone.actions,
         dropped |-> TRUE]
      Unregistered(presetsDone) ==
        IF ~loaded.hasRegistrations
        THEN [untouched EXCEPT !.raised = TRUE, !.fs = presetsDone.fs, !.links = unlinked,
                               !.actions = presetsDone.actions]
        ELSE Removed(presetsDone,
                     UnregisterEach(presetsDone.fs, customPaths, heading,
                                    [fault EXCEPT !.k = @ - Len(PresetValues)]))
  IN  IF name = <<>> \/ name = <<"b", "i", "n">> THEN untouched
      ELSE IF ~inside THEN untouched
      ELSE IF ~toolDir.exists THEN untouched
      ELSE IF dryRun
      THEN IF ~loaded.hasRegistrations THEN [untouched EXCEPT !.raised = TRUE]
           ELSE [untouched EXCEPT !.success = TRUE]
      ELSE Unregistered(UnregisterEach(fsys, PresetValues, heading, fault))

\* the loop of refreshTool over the presets that hold the tool's section
RECURSIVE RefreshEach(_, _, _, _, _)
RefreshEach(fsys, reg, registered, entry, name) ==
  IF Len(registered) = 0 THEN [fs |-> fsys, registry |-> reg]
  ELSE LET path == resolvePath(PRESETS[Head(registered)])
           After(result) ==
             RefreshEach([fsys EXCEPT ![path] = result.file], result.registry,
                         Tail(registered), entry, name)
       IN  After(registerEntry(fsys[path], reg, path, entry, name, "none"))

\* refreshTool(name, {dryRun}): [success, fs, registry, links,
\* registrationAction, registrationTargets]
refreshTool(fsys, reg, toolDir, lnks, live, toolPath, name, dryRun) ==
  LET scripts == Scripts(toolDir)
      heading == getToolHeading(name)
      entry   == generateBasicEntry(name, scripts)
      Added(linked, paths, added) ==
        [success |-> TRUE,
         fs |-> IF dryRun THEN fsys ELSE added.fs,
         registry |-> IF dryRun THEN reg ELSE added.registry,
         links |-> linked,
         registrationAction |-> "added", registrationTargets |-> paths]
      Updated(linked, registered, updated) ==
        [success |-> TRUE,
         fs |-> IF dryRun THEN fsys ELSE updated.fs,
         registry |-> IF dryRun THEN reg ELSE updated.registry,
         links |-> linked,
         registrationAction |-> "updated",
         registrationTargets |-> [i \in 1..Len(registered) |-> <<registered[i]>>]]
      Refreshed(linked, registered, paths) ==
        IF Len(registered) = 0
        THEN IF Len(paths) > 0
             THEN Added(linked, paths, registerToAll(fsys, reg, paths, entry, name, NoFault))
             ELSE [success |-> TRUE, fs |-> fsys, registry |-> reg, links |-> linked,
                   registrationAction |-> "none", registrationTargets |-> <<>>]
        ELSE Updated(linked, registered, RefreshEach(fsys, reg, registered, entry, name))
  IN  IF ~toolDir.exists
      THEN [success |-> FALSE, fs |-> fsys, registry |-> reg, links |-> lnks,
            registrationAction |-> "none", registrationTargets |-> <<>>]
      ELSE Refreshed(IF dryRun THEN lnks
                     ELSE createSymlinksForTool(lnks, live, toolPath, toolDir),
                     checkRegistrationStatus(fsys, heading),
                     resolveAllPaths({q \in DOMAIN fsys : fsys[q].exists},
                                     [registerPaths |-> <<>>, allPresets |-> FALSE,
                                      local |-> FALSE]))

\* ------------------------------------------------------------------------
\* The generate command (bin/mcp-to-pi-tools.js). pre is the outcome of the
\* argument and dependency checks, discovery and generation the outcomes of
\* those phases, files the generated file map. env is what the later phases
\* work on: [fs, registry, links, targets, shell] of the machine, config
\* (the loaded config file), options (the parsed command line), outputDir,
\* name (the directory name of the tool) and entry (the generated agent
\* entry). Besides the faults of writeOutput, the fault "symlinkDir" is the
\* failure to create the symlink directory.
\* ------------------------------------------------------------------------

\* the paths in front of the first one that is not a string
RECURSIVE StringPrefix(_)
StringPrefix(paths) ==
  IF Len(paths) = 0 \/ (\E q \in ObjectPrototype : q.value = Head(paths)) THEN <<>>
  ELSE <<Head(paths)>> \o StringPrefix(Tail(paths))

\* The phases of main after a successful write outside a dry run: symlinks,
\* shell config, registration. w is what writeOutput returned, phases the
\* phases started so far.
LaterPhases(w, files, fault, env, phases) ==
  LET effectiveConfig == mergeWithCli(env.config, env.options)
      live == env.targets
              \cup {<<env.outputDir, f>> : f \in {g \in DOMAIN w.dir.files : w.dir.files[g].exists}}
      linked == IF effectiveConfig.symlink
                THEN createSymlinks(env.links, live, env.outputDir, Keys(files),
                                    effectiveConfig.forceSymlink)
                ELSE env.links
      shellAfter == IF effectiveConfig.symlink /\ env.options.shellConfig
                    THEN ensurePathConfigured(env.shell)
                    ELSE env.shell
      paths == IF effectiveConfig.register
               THEN resolveAllPaths({p \in DOMAIN env.fs : env.fs[p].exists}, effectiveConfig)
               ELSE <<>>
      registered == registerToAll(env.fs, env.registry, StringPrefix(paths), env.entry,
                                  env.name, NoFault)
  IN  IF effectiveConfig.symlink /\ fault.at = "symlinkDir"
      THEN [exit |-> EXIT_ERROR, dir |-> w.dir, faulted |-> TRUE,
            phases |-> phases \o <<"symlink">>,
            fs |-> env.fs, registry |-> env.registry, links |-> env.links,
            shell |-> env.shell]
      ELSE [exit |-> IF StringPrefix(paths) = paths THEN EXIT_SUCCESS ELSE EXIT_ERROR,
            dir |-> w.dir, faulted |-> FALSE,
            phases |-> phases
                       \o (IF effectiveConfig.symlink THEN <<"symlink">> ELSE <<>>)
                       \o (IF effectiveConfig.symlink /\ env.options.shellConfig
                           THEN <<"shellConfig">> ELSE <<>>)
                       \o (IF Len(paths) > 0 THEN <<"registration">> ELSE <<>>),
            fs |-> registered.fs, registry |-> registered.registry,
            links |-> linked, shell |-> shellAfter]

\* a run that ends before or in the write phase: nothing but the output
\* directory has changed
Stopped(code, dir, faulted, env, phases) ==
  [exit |-> code, dir |-> dir, faulted |-> faulted, phases |-> phases,
   fs |-> env.fs, registry |-> env.registry, links |-> env.links, shell |-> env.shell]

\* main without its check that the output directory exists
main_NoExistsCheck(d, pre, force, dryRun, discovery, generation, files, fault, env) ==
  LET w == writeOutput(d, files, dryRun, force, fault)
      written == <<"discovery", "grouping", "generation", "output">>
  IN  IF pre = "invalidArgs" THEN Stopped(EXIT_INVALID_ARGS, d, FALSE, env, <<>>)
      ELSE IF pre = "noMcporter" THEN Stopped(EXIT_ERROR, d, FALSE, env, <<>>)
      ELSE IF discovery = "failed"
      THEN Stopped(EXIT_DISCOVERY_FAILED, d, FALSE, env, <<"discovery">>)
      ELSE IF generation = "failed"
      THEN Stopped(EXIT_GENERATION_FAILED, d, FALSE, env, <<"discovery", "grouping", "generation">>)
      ELSE IF w.threw THEN Stopped(EXIT_OUTPUT_FAILED, w.dir, w.faulted, env, written)
      ELSE IF dryRun THEN Stopped(EXIT_SUCCESS, w.dir, FALSE, env, written)
      ELSE LaterPhases(w, files, fault, env, written)

\* main that goes on to the later phases in a dry run
main_NoDryRunCheck(d, pre, force, dryRun, discovery, generation, files, fault, env) ==
  LET w == writeOutput(d, files, dryRun, force, fault)
      written == <<"discovery", "grouping", "generation", "output">>
  IN  IF pre = "invalidArgs" THEN Stopped(EXIT_INVALID_ARGS, d, FALSE, env, <<>>)
      ELSE IF pre = "noMcporter" THEN Stopped(EXIT_ERROR, d, FALSE, env, <<>>)
      ELSE IF outputExists(d) /\ ~force /\ ~dryRun
      THEN Stopped(EXIT_OUTPUT_FAILED, d, FALSE, env, <<>>)
      ELSE IF discovery = "failed"
      THEN Stopped(EXIT_DISCOVERY_FAILED, d, FALSE, env, <<"discovery">>)
      ELSE IF generation = "failed"
      THEN Stopped(EXIT_GENERATION_FAILED, d, FALSE, env, <<"discovery", "grouping", "generation">>)
      ELSE IF w.threw THEN Stopped(EXIT_OUTPUT_FAILED, w.dir, w.faulted, env, written)
      ELSE LaterPhases(w, files, fault, env, written)

\* main that goes on to the later phases after a failed write
main_NoWriteCheck(d, pre, force, dryRun, discovery, generation, files, fault, env) ==
  LET w == writeOutput(d, files, dryRun, force, fault)
      written == <<"discovery", "grouping", "generation", "output">>
  IN  IF pre = "invalidArgs" THEN Stopped(EXIT_INVALID_ARGS, d, FALSE, env, <<>>)
      ELSE IF pre = "noMcporter" THEN Stopped(EXIT_ERROR, d, FALSE, env, <<>>)
      ELSE IF outputExists(d) /\ ~force /\ ~dryRun
      THEN Stopped(EXIT_OUTPUT_FAILED, d, FALSE, env, <<>>)
      ELSE IF discovery = "failed"
      THEN Stopped(EXIT_DISCOVERY_FAILED, d, FALSE, env, <<"discovery">>)
      ELSE IF generation = "failed"
      THEN Stopped(EXIT_GENERATION_FAILED, d, FALSE, env, <<"discovery", "grouping", "generation">>)
      ELSE IF dryRun THEN Stopped(EXIT_SUCCESS, w.dir, FALSE, env, written)
      ELSE [LaterPhases(w, files, fault, env, written) EXCEPT !.faulted = w.faulted]

\* main() of the generate command: [exit, dir, faulted, phases, fs, registry,
\* links, shell]; phases are the phases that were started, in order. An
\* exception that no phase catches ends the run with EXIT_ERROR.
main(d, pre, force, dryRun, discovery, generation, files, fault, env) ==
  LET w == writeOutput(d, files, dryRun, force, fault)
      written == <<"discovery", "grouping", "generation", "output">>
  IN  IF pre = "invalidArgs" THEN Stopped(EXIT_INVALID_ARGS, d, FALSE, env, <<>>)
      ELSE IF pre = "noMcporter" THEN Stopped(EXIT_ERROR, d, FALSE, env, <<>>)
      ELSE IF outputExists(d) /\ ~force /\ ~dryRun
      THEN Stopped(EXIT_OUTPUT_FAILED, d, FALSE, env, <<>>)
      ELSE IF discovery = "failed"
      THEN Stopped(EXIT_DISCOVERY_FAILED, d, FALSE, env, <<"discovery">>)
      ELSE IF generation = "failed"
      THEN Stopped(EXIT_GENERATION_FAILED, d, FALSE, env, <<"discovery", "grouping", "generation">>)
      ELSE IF w.threw THEN Stopped(EXIT_OUTPUT_FAILED, w.dir, w.faulted, env, written)
      ELSE IF dryRun THEN Stopped(EXIT_SUCCESS, w.dir, FALSE, env, written)
      ELSE LaterPhases(w, files, fault, env, written)

\* ------------------------------------------------------------------------
\* State
\* ------------------------------------------------------------------------

VARIABLES
  fs,        \* agent config files: resolved path -> [dir, exists, content]
  registry,  \* the registry backing file: [kind, registrations]
  last,      \* the last call: operation, arguments, result, file before it
  prev,      \* the call before the last one
  nOps,      \* number of calls made so far
  out,       \* the output directory of a tool: [exists, files, manifest]
  origin,    \* who made the output directory what it is: "none" (it does
             \* not exist), "writer" (writeOutput created it; since then only
             \* writeOutput ran and the user added files), "legacy" (it was
             \* there before), "tampered" (its manifest was edited or lost)
  lastW,     \* the last writeOutput or main call, and the directory before it
  links,     \* the symlink directory: link name -> [kind, target]
  targets,   \* the link targets outside the output directory that exist
  shell,     \* the shell config: "unknown", "unconfigured", "configured"
  call       \* the last call of a policy, symlink or tool-management function

vars == <<fs, registry, last, prev, nOps, out, origin, lastW, links, targets, shell, call>>

\* the variables of the agent files, and of the output directory
regVars == <<fs, registry, last, prev, nOps>>
outVars == <<out, origin, lastW>>

\* the variables of the symlink directory, the shell config and the last call
envVars == <<links, targets, shell, call>>

\* names of the files of an output directory: a wrapper script, a
\* document and a shell script
ToolJs   == <<"t", ".", "j", "s">>
ReadmeMd == <<"r", ".", "m", "d">>
SetupSh  == <<"s", ".", "s", "h">>
OutNames == {ToolJs, ReadmeMd, SetupSh}

\* an output directory that does not exist
AbsentDir ==
  [exists |-> FALSE, files |-> [f \in OutNames |-> NoFile], manifest |-> NoManifest]

\* a file the user put into the directory
UserFile == [exists |-> TRUE, content |-> "user", exec |-> FALSE]

\* no writeOutput or main call yet
NoWrite ==
  [op |-> "none", pre |-> "ok", files |-> <<>>, force |-> FALSE, dryRun |-> FALSE,
   fault |-> NoFault, threw |-> FALSE, message |-> "none", exit |-> -1,
   before |-> AbsentDir, originBefore |-> "none"]

\* a file that does not exist, in an existing directory
AbsentFile == [dir |-> TRUE, exists |-> FALSE, content |-> <<>>]

\* a file holding text
FileOf(text) == [dir |-> TRUE, exists |-> TRUE, content |-> text]

\* no call yet
NoCall ==
  [op |-> "none", target |-> <<>>, entry |-> <<>>, heading |-> Null,
   name |-> <<>>, fault |-> "none", status |-> "none",
   before |-> AbsentFile, wrote |-> FALSE, run |-> Null]

\* the output directory of the tool, as the first half of a link target
ToolDir == "tool"

\* the names in the symlink directory: the link of the wrapper script
LinkNames == {getSymlinkName(ToolJs)}

\* the link targets that exist: those outside the output directory, and the
\* files of the output directory
Live == targets \cup {<<ToolDir, f>> : f \in {g \in OutNames : out.exists /\ out.files[g].exists}}

\* no call of a policy, symlink or tool-management function yet
NoOp == [op |-> "none"]

\* an empty symlink directory, a shell config without the PATH line
InitEnv ==
  /\ links = [n \in LinkNames |-> NoLink]
  /\ targets = {}
  /\ shell = "unconfigured"
  /\ call = NoOp

\* number of occurrences of sub in s (String.prototype.match(/sub/g).length)
CountOccurrences(s, sub) ==
  Cardinality({i \in 0..(Len(s) - Len(sub)) : MatchesAt(s, sub, i)})

\* ------------------------------------------------------------------------
\* Operations
\* ------------------------------------------------------------------------

\* one registerEntry(target, entry, name) call; a fault other than "none" is
\* taken only where the failing call is made. RunAfter is the history of the
\* current run of registrations under one heading: the heading H such that
\* every call since a file without H was a successful registerEntry of an
\* entry whose identifying heading is H; Null otherwise.
Register(target, entry, name, fault) ==
  LET path == resolvePath(target)
      RunAfter(heading, status, before) ==
        IF /\ heading # Null
           /\ status \in {"created", "updated", "unchanged"}
           /\ \/ last.run = heading
              \/ CountOccurrences(before.content, heading) = 0
        THEN heading
        ELSE Null
  IN
  \E r \in {registerEntry(fs[path], registry, target, entry, name, fault)} :
    /\ fault # "none" => r.status = "error"
    /\ fs' = [fs EXCEPT ![path] = r.file]
    /\ registry' = r.registry
    /\ prev' = last
    /\ last' = [op |-> "register", target |-> target, entry |-> entry,
                heading |-> extractHeading(entry), name |-> name,
                fault |-> fault, status |-> r.status,
                before |-> fs[path], wrote |-> r.wrote,
                run |-> RunAfter(extractHeading(entry), r.status, fs[path])]
    /\ UNCHANGED outVars
    /\ UNCHANGED envVars

\* one unregisterEntry(target, heading) call
Unregister(target, heading, fault) ==
  LET path == resolvePath(target) IN
  \E r \in {unregisterEntry(fs[path], heading, fault)} :
    /\ fault # "none" => r.status = "error"
    /\ fs' = [fs EXCEPT ![path] = r.file]
    /\ UNCHANGED registry
    /\ prev' = last
    /\ last' = [op |-> "unregister", target |-> target, entry |-> <<>>,
                heading |-> heading, name |-> <<>>,
                fault |-> fault, status |-> r.status,
                before |-> fs[path], wrote |-> r.wrote, run |-> Null]
    /\ UNCHANGED outVars
    /\ UNCHANGED envVars

\* the origin of the directory after a call of the writer
OriginAfter(d) ==
  IF ~d.exists THEN "none" ELSE IF origin = "none" THEN "writer" ELSE origin

\* one writeOutput(outputDir, files, {dryRun, force}) call
WriteOutput(files, dryRun, force, fault) ==
  \E r \in {writeOutput(out, files, dryRun, force, fault)} :
    /\ r.faulted = (fault.at # "none")
    /\ out' = r.dir
    /\ origin' = OriginAfter(r.dir)
    /\ lastW' = [op |-> "writeOutput", pre |-> "ok", files |-> files, force |-> force,
                 dryRun |-> dryRun, fault |-> fault, threw |-> r.threw,
                 message |-> r.message, exit |-> -1,
                 before |-> out, originBefore |-> origin]
    /\ UNCHANGED regVars
    /\ UNCHANGED envVars

\* one run of the generate command for a tool [name, entry], the config
\* file holding the defaults
Main(pre, force, dryRun, discovery, generation, files, fault, options, tool) ==
  \E r \in {main(out, pre, force, dryRun, discovery, generation, files, fault,
                 [fs |-> fs, registry |-> registry, links |-> links,
                  targets |-> targets, shell |-> shell,
                  config |-> DEFAULT_CONFIG, options |-> options,
                  outputDir |-> ToolDir, name |-> tool.name, entry |-> tool.entry])} :
    /\ r.faulted = (fault.at # "none")
    /\ out' = r.dir
    /\ origin' = OriginAfter(r.dir)
    /\ fs' = r.fs
    /\ registry' = r.registry
    /\ links' = r.links
    /\ shell' = r.shell
    /\ lastW' = [op |-> "main", pre |-> pre, files |-> files, force |-> force,
                 dryRun |-> dryRun, fault |-> fault, threw |-> FALSE,
                 message |-> "none", exit |-> r.exit,
                 before |-> out, originBefore |-> origin,
                 discovery |-> discovery, generation |-> generation,
                 options |-> options, phases |-> r.phases,
                 fsBefore |-> fs, registryBefore |-> registry,
                 linksBefore |-> links, shellBefore |-> shell]
    /\ UNCHANGED <<last, prev, nOps, targets, call>>

\* The call is over and its outcome has been looked at: the record of the
\* call is dropped. Calls are made from a state without a record, so that
\* the number of states grows with the number of directories and of calls,
\* not with the number of pairs of calls; no sequence of calls is lost.
Return ==
  /\ lastW # NoWrite
  /\ lastW' = NoWrite
  /\ UNCHANGED <<out, origin, regVars>>
  /\ UNCHANGED envVars

\* the user puts a file of their own into the directory, under a name that
\* is not taken and that the manifest does not list
UserAddsFile ==
  /\ out.exists
  /\ \E f \in OutNames :
       /\ ~out.files[f].exists
       /\ ~Includes(out.manifest.files, f)
       /\ out' = [out EXCEPT !.files[f] = UserFile]
  /\ lastW' = NoWrite
  /\ UNCHANGED <<origin, regVars>>
  /\ UNCHANGED envVars

\* the manifest file is lost, overwritten with text that is not JSON, or
\* with JSON that has no files list
DamageManifest ==
  /\ out.exists
  /\ out.manifest.kind = "valid"
  /\ \E kind \in {"absent", "invalid", "noFiles"} :
       out' = [out EXCEPT !.manifest = [kind |-> kind, files |-> <<>>]]
  /\ origin' = "tampered"
  /\ lastW' = NoWrite
  /\ UNCHANGED regVars
  /\ UNCHANGED envVars

\* one createSymlink(targetPath, linkPath, {force}) call on the link name
CreateSymlink(name, targetPath, force) ==
  \E r \in {createSymlink(links[name], Live, targetPath, force)} :
    /\ links' = [links EXCEPT ![name] = r.link]
    /\ call' = [op |-> "createSymlink", name |-> name, targetPath |-> targetPath,
                force |-> force, before |-> links[name], live |-> Live,
                success |-> r.success, action |-> r.action]
    /\ UNCHANGED <<regVars, outVars, targets, shell>>

\* one createSymlinks(outputDir, files, symlinkDir, {force}) call; keys are
\* the file names of files in their order
CreateSymlinks(outputDir, keys, force) ==
  /\ links' = createSymlinks(links, Live, outputDir, keys, force)
  /\ call' = [op |-> "createSymlinks", outputDir |-> outputDir, keys |-> keys,
              force |-> force, before |-> links, live |-> Live]
  /\ UNCHANGED <<regVars, outVars, targets, shell>>

\* the record of a call of a batch or tool-management function: the
\* operation, its arguments and the state before it
Before(op, name, paths, entry, dryRun, fault) ==
  [op |-> op, name |-> name, paths |-> paths, entry |-> entry, dryRun |-> dryRun,
   fault |-> fault, fsBefore |-> fs, registryBefore |-> registry, dirBefore |-> out,
   linksBefore |-> links]

\* one registerEntry(target, entry, name) call, every filesystem call
\* succeeding
RegisterEntry(target, entry, name) ==
  \E r \in {registerEntry(fs[resolvePath(target)], registry, target, entry, name, "none")} :
    /\ fs' = [fs EXCEPT ![resolvePath(target)] = r.file]
    /\ registry' = r.registry
    /\ call' = Before("registerEntry", name, <<target>>, entry, FALSE, NoFault)
                @@ [raised |-> FALSE, results |-> <<[path |-> target, action |-> r.status]>>]
    /\ UNCHANGED <<last, prev, outVars, links, targets, shell>>

\* one registerToAll(paths, entry, name) call; a fault is taken only where
\* the failing call is made
RegisterToAll(paths, entry, name, fault) ==
  \E r \in {registerToAll(fs, registry, paths, entry, name, fault)} :
    /\ fault # NoFault =>
         /\ fault.k \in 1..Len(paths)
         /\ r.results[fault.k].action = "error"
         /\ registerToAll(fs, registry, paths, entry, name, NoFault).results[fault.k].action
              # "error"
    /\ fs' = r.fs
    /\ registry' = r.registry
    /\ call' = Before("registerToAll", name, paths, entry, FALSE, fault)
                @@ [raised |-> FALSE, results |-> r.results]
    /\ UNCHANGED <<last, prev, outVars, links, targets, shell>>

\* one removeFromRegistry(name) call
RemoveFromRegistry(name) ==
  \E r \in {removeFromRegistry(registry, name)} :
    /\ registry' = r.registry
    /\ call' = Before("removeFromRegistry", name, <<>>, <<>>, FALSE, NoFault)
                @@ [raised |-> r.threw, results |-> <<>>]
    /\ UNCHANGED <<fs, last, prev, outVars, links, targets, shell>>

\* one refreshTool(name, {dryRun}) call on the tool directory
RefreshTool(name, dryRun) ==
  \E r \in {refreshTool(fs, registry, out, links, Live, ToolDir, name, dryRun)} :
    /\ fs' = r.fs
    /\ registry' = r.registry
    /\ links' = r.links
    /\ call' = Before("refreshTool", name, r.registrationTargets, <<>>, dryRun, NoFault)
                @@ [raised |-> FALSE, success |-> r.success,
                    registrationAction |-> r.registrationAction]
    /\ UNCHANGED <<last, prev, outVars, targets, shell>>

\* one removeTool(name, {dryRun}) call. ~/agent-tools holds the directory of
\* the tool a (out) and the symlink directory bin (links); at is what
\* join(AGENT_TOOLS_DIR, name) denotes: the tool directory, whose name is
\* installed, bin, ~/agent-tools itself ("root") or nothing. rmSync of bin or of ~/agent-tools deletes the
\* links, rmSync of ~/agent-tools the tool directory as well.
RemoveTool(installed, name, dryRun, fault) ==
  LET segs == pathJoin(AGENT_TOOLS_DIR, name).segs
      at   == IF segs = AGENT_TOOLS_DIR \o <<installed>> THEN "tool"
              ELSE IF segs = AGENT_TOOLS_DIR \o <<<<"b", "i", "n">>>> THEN "bin"
              ELSE IF segs = AGENT_TOOLS_DIR THEN "root"
              ELSE "none"
      dir  == IF at = "tool" THEN out
              ELSE IF at = "none" THEN AbsentDir
              ELSE [AbsentDir EXCEPT !.exists = TRUE]
      After(r, dirAfter) ==
        /\ fault # NoFault =>
             /\ fault.k \in 1..Len(r.actions)
             /\ r.actions[fault.k] = "error"
        /\ fs' = r.fs
        /\ registry' = r.registry
        /\ links' = IF at \in {"bin", "root"} /\ r.dropped
                    THEN [n \in DOMAIN links |-> NoLink]
                    ELSE r.links
        /\ out' = dirAfter
        /\ origin' = OriginAfter(dirAfter)
        /\ call' = Before("removeTool", name, <<>>, <<>>, dryRun, fault)
                    @@ [raised |-> r.raised, success |-> r.success, actions |-> r.actions,
                        dropped |-> r.dropped, at |-> at, toolPath |-> segs]
      Done(r) == After(r, IF at = "tool" THEN r.dir
                          ELSE IF at = "root" /\ r.dropped THEN AbsentDir
                          ELSE out)
  IN
  /\ Done(removeTool(fs, registry, dir, links, IF at = "tool" THEN ToolDir ELSE at,
                     name, dryRun, fault))
    /\ UNCHANGED <<last, prev, lastW, targets, shell>>

\* ------------------------------------------------------------------------
\* Specification SpecReg: one shared, hand-edited agent file at a custom
\* path, registered into and unregistered from in any order, every
\* filesystem call succeeding
\* ------------------------------------------------------------------------

\* number of consecutive calls explored
MaxOps == 2

\* a custom (non-preset) registration target
CustomTarget == <<"w", "NOTES.md">>

\* tool directory names: a, a-tools (its derived heading extends a's), b
NameA == <<"a">>
NameATools == <<"a", "-", "t", "o", "o", "l", "s">>
ToolNames == {NameA, NameATools, <<"b">>}

\* the heading lines used in free-form entries and documents: a heading, the
\* same heading followed by a blank, and a heading the first is a prefix of
HeadA  == H3 \o <<" ", "A">>
HeadAs == H3 \o <<" ", "A", " ">>
HeadAB == H3 \o <<" ", "A", "B">>

\* lines that entries are made of: the headings, free text, the empty line
RegLines == {HeadA, HeadAs, HeadAB, <<"x">>, <<>>}

RegFiles == {resolvePath(CustomTarget)}

InitReg ==
  LET \* the file's text before the first call: free text with and without
      \* trailing newlines, text that mentions a heading inside a line, and
      \* sections written by hand
      RegInitialTexts ==
        {<<>>, <<"x">>, <<"x", NL>>, <<"x", NL, NL>>, <<"x", NL, NL, NL>>,
         <<"z", " ">> \o HeadA,
         HeadAB \o <<NL, "y", NL>>,
         HeadA \o <<NL, "y", NL, NL>> \o HeadAB \o <<NL, "y", NL>>,
         <<"z", NL, NL, NL>> \o HeadAB \o <<NL, NL>> \o HeadA \o <<NL, NL, NL, "y">>}
  IN
  /\ \E f \in {AbsentFile, [AbsentFile EXCEPT !.dir = FALSE]}
              \cup {FileOf(t) : t \in RegInitialTexts} :
        fs = [p \in RegFiles |-> f]
  /\ registry = [kind |-> "absent", registrations |-> [n \in ToolNames |-> NoRecord]]
  /\ last = NoCall
  /\ prev = NoCall
  /\ nOps = 0
  /\ out = AbsentDir
  /\ origin = "none"
  /\ lastW = NoWrite
  /\ InitEnv

\* one more registerEntry or unregisterEntry call on the agent file
NextReg ==
  LET \* entry contents: one line, or two lines
      RegEntries ==
        (RegLines \ {<<>>}) \cup {l1 \o <<NL>> \o l2 : l1 \in RegLines, l2 \in RegLines}
      \* headings handed to unregisterEntry
      RegHeadings == {HeadA, HeadAs, HeadAB}
  IN
  \/ /\ nOps < MaxOps
     /\ nOps' = nOps + 1
     /\ \E entry \in RegEntries : Register(CustomTarget, entry, NameA, "none")
  \/ /\ nOps < MaxOps
     /\ nOps' = nOps + 1
     /\ \E heading \in RegHeadings : Unregister(CustomTarget, heading, "none")

SpecReg == InitReg /\ [][NextReg]_vars

\* ------------------------------------------------------------------------
\* Specification SpecTools: the same agent file, holding the sections that
\* the tool commands generate for installed tools
\* ------------------------------------------------------------------------

InitTools ==
  /\ \E f \in {AbsentFile, FileOf(<<"x", NL>>)} : fs = [p \in RegFiles |-> f]
  /\ registry = [kind |-> "absent", registrations |-> [n \in ToolNames |-> NoRecord]]
  /\ last = NoCall
  /\ prev = NoCall
  /\ nOps = 0
  /\ out = AbsentDir
  /\ origin = "none"
  /\ lastW = NoWrite
  /\ InitEnv

\* the basic entry of an installed tool is registered, or the section of a
\* tool is removed by its derived heading
NextTools ==
  LET \* readdirSync(toolPath).filter(f => f.endsWith(".js")) of a tool directory
      ScriptLists == {<<>>, << <<"x", ".", "j", "s">> >>}
  IN
  \/ /\ nOps < MaxOps
     /\ nOps' = nOps + 1
     /\ \E name \in ToolNames, scripts \in ScriptLists :
          Register(CustomTarget, generateBasicEntry(name, scripts), name, "none")
  \/ /\ nOps < MaxOps
     /\ nOps' = nOps + 1
     /\ \E name \in ToolNames : Unregister(CustomTarget, getToolHeading(name), "none")

SpecTools == InitTools /\ [][NextTools]_vars

\* ------------------------------------------------------------------------
\* Specification SpecOut: one output directory, written by writeOutput and
\* by the generate command any number of times with any file map, with
\* filesystem calls that may fail, while the user adds files
\* ------------------------------------------------------------------------

\* the options parseArgs starts from
DefaultOptions ==
  [register |-> TRUE, registerPaths |-> <<>>, presets |-> <<>>, local |-> FALSE,
   allPresets |-> FALSE, symlink |-> TRUE, symlinkDir |-> Null,
   forceSymlink |-> FALSE, shellConfig |-> TRUE]

\* the command line --no-symlink --no-register
NoWiring == [DefaultOptions EXCEPT !.symlink = FALSE, !.register = FALSE]

\* the runs of the generate command that stop before the output is written
MainStops ==
  {[pre |-> "invalidArgs", discovery |-> "ok", generation |-> "ok"],
   [pre |-> "noMcporter", discovery |-> "ok", generation |-> "ok"],
   [pre |-> "ok", discovery |-> "failed", generation |-> "ok"],
   [pre |-> "ok", discovery |-> "ok", generation |-> "failed"]}

InitOut ==
  LET \* directories that were there before the tool was used: no manifest
      LegacyDirs ==
        {[exists |-> TRUE,
          files |-> [f \in OutNames |-> IF f \in present THEN UserFile ELSE NoFile],
          manifest |-> NoManifest] : present \in SUBSET OutNames}
  IN
  /\ out \in {AbsentDir} \cup LegacyDirs
  /\ origin = IF out.exists THEN "legacy" ELSE "none"
  /\ lastW = NoWrite
  /\ fs = [p \in RegFiles |-> AbsentFile]
  /\ registry = [kind |-> "absent", registrations |-> [n \in ToolNames |-> NoRecord]]
  /\ last = NoCall
  /\ prev = NoCall
  /\ nOps = 0
  /\ InitEnv

\* a writeOutput call, a run of the generate command without wiring that
\* stops early or reaches the output phase, the end of a call, or a change
\* made by the user
NextOut ==
  LET \* the file maps handed to writeOutput
      OutFileMaps ==
        LET \* contents of generated files
            OutContents == {"v1", "v2"}
            \* key lists of the file maps: the sublists of the three names, and one that
            \* holds the manifest's own name
            OutKeyLists ==
              {<<>>, <<ToolJs>>, <<ReadmeMd>>, <<SetupSh>>,
               <<ToolJs, ReadmeMd>>, <<ToolJs, SetupSh>>, <<ReadmeMd, SetupSh>>,
               <<ToolJs, ReadmeMd, SetupSh>>, <<MANIFEST_FILE, ToolJs>>}
        IN
        {[i \in 1..Len(ks) |-> [filename |-> ks[i], content |-> c]] :
           ks \in OutKeyLists, c \in OutContents}
      \* the faults: a call that fails, and the loop iteration where it fails
      OutFaults ==
        {NoFault}
        \cup {[at |-> a, k |-> 0] : a \in {"unlinkManifest", "rm", "mkdir", "manifest"}}
        \cup {[at |-> a, k |-> k] : a \in {"unlink", "write"}, k \in 1..Cardinality(OutNames)}
  IN
  \/ /\ lastW = NoWrite
     /\ \E files \in OutFileMaps, dryRun \in BOOLEAN, force \in BOOLEAN,
           fault \in OutFaults :
          WriteOutput(files, dryRun, force, fault)
  \/ /\ lastW = NoWrite
     /\ \E run \in MainStops, dryRun \in BOOLEAN, force \in BOOLEAN :
          Main(run.pre, force, dryRun, run.discovery, run.generation, <<>>, NoFault,
               NoWiring, [name |-> NameA, entry |-> <<>>])
  \/ /\ lastW = NoWrite
     /\ \E files \in OutFileMaps, dryRun \in BOOLEAN, force \in BOOLEAN,
           fault \in OutFaults :
          Main("ok", force, dryRun, "ok", "ok", files, fault,
               NoWiring, [name |-> NameA, entry |-> <<>>])
  \/ Return
  \/ UserAddsFile
  \/ DamageManifest

SpecOut == InitOut /\ [][NextOut]_vars

\* ------------------------------------------------------------------------
\* Specification SpecPolicy: the pure configuration functions, applied to
\* every config and CLI option set below, for every combination of preset
\* and local agent files on disk
\* ------------------------------------------------------------------------

\* custom registration paths given on the command line or in the config file
PathP == <<"w", "P.md">>
PathQ == <<"~", "Q.md">>

\* the agent files whose existence the policy looks at
PolicyFiles ==
  {resolvePath(PRESET_PRIORITY[i]) : i \in 1..Len(PRESET_PRIORITY)}
  \cup {Cwd \o <<LOCAL_FILE_PRIORITY[i]>> : i \in 1..Len(LOCAL_FILE_PRIORITY)}

InitPolicy ==
  /\ \E present \in SUBSET PolicyFiles :
       fs = [p \in PolicyFiles |-> IF p \in present THEN FileOf(<<"x", NL>>) ELSE AbsentFile]
  /\ registry = [kind |-> "absent", registrations |-> [n \in ToolNames |-> NoRecord]]
  /\ last = NoCall
  /\ prev = NoCall
  /\ nOps = 0
  /\ out = AbsentDir
  /\ origin = "none"
  /\ lastW = NoWrite
  /\ InitEnv

\* The call is over and its outcome has been looked at: its record is
\* dropped. Calls are made from a state without a record.
Forget ==
  /\ call # NoOp
  /\ call' = NoOp
  /\ UNCHANGED <<regVars, outVars, links, targets, shell>>

\* one resolveAllPaths(effectiveConfig) call
ResolveAllPaths ==
  LET \* registerPaths lists: empty, single, with duplicates, naming a preset file
      \* or the local file
      PolicyPathLists ==
        {<<>>, <<PathP>>, <<PathP, PathP>>, <<PathQ, PathP, PathQ>>,
         <<PRESETS.claude, PathP>>, <<Cwd \o <<"AGENTS.md">>>>}
      \* the paths for which existsSync holds
      Existing == {p \in DOMAIN fs : fs[p].exists}
  IN
  /\ call = NoOp
  /\ \E rp \in PolicyPathLists, a \in BOOLEAN, l \in BOOLEAN :
       LET cfg == [DEFAULT_CONFIG EXCEPT !.registerPaths = rp, !.allPresets = a, !.local = l]
       IN  call' = [op |-> "resolveAllPaths", config |-> cfg,
                    result |-> resolveAllPaths(Existing, cfg)]
  /\ UNCHANGED <<regVars, outVars, links, targets, shell>>

\* one mergeWithCli(config, options) call
MergeWithCli ==
  LET \* --preset values: known names in any case, repeated names, unknown names,
      \* names of properties that every object inherits
      PolicyPresetLists ==
        {<<>>, << <<"p", "i">> >>, << <<"P", "I">> >>,
         << <<"p", "i">>, <<"c", "l", "a", "u", "d", "e">>, <<"p", "i">> >>,
         << <<"n", "o", "p", "e">> >>,
         << <<"n", "o", "p", "e">>, <<"c", "o", "d", "e", "x">> >>,
         << <<"c", "o", "n", "s", "t", "r", "u", "c", "t", "o", "r">> >>}
      \* loadConfig(): the defaults, overridden by the fields of the config file
      PolicyConfigs ==
        {[DEFAULT_CONFIG EXCEPT !.register = r, !.registerPaths = ps] :
           r \in BOOLEAN, ps \in {<<>>, <<PathQ>>}}
      \* parsed command lines
      PolicyOptions ==
        {[register |-> r, registerPaths |-> ps, presets |-> pr, local |-> l,
          allPresets |-> a, symlink |-> sy, symlinkDir |-> Null, forceSymlink |-> FALSE] :
           r \in BOOLEAN, ps \in {<<>>, <<PathP>>, <<PathP, PathP>>, <<PRESETS.pi>>},
           pr \in PolicyPresetLists, l \in BOOLEAN, a \in BOOLEAN, sy \in BOOLEAN}
  IN
  /\ call = NoOp
  /\ \E config \in PolicyConfigs, options \in PolicyOptions :
       call' = [op |-> "mergeWithCli", config |-> config, options |-> options,
                result |-> mergeWithCli(config, options)]
  /\ UNCHANGED <<regVars, outVars, links, targets, shell>>

NextPolicy == ResolveAllPaths \/ MergeWithCli \/ Forget

SpecPolicy == InitPolicy /\ [][NextPolicy]_vars

\* ------------------------------------------------------------------------
\* Specification SpecLinks: one link path of the symlink directory, holding
\* nothing, a file, a directory or a link to a script that exists or not,
\* while scripts are installed and deleted and createSymlink is called
\* ------------------------------------------------------------------------

\* the wrapper scripts of three tool directories
LinkTargets == {<<"old", ToolJs>>, <<"other", ToolJs>>, <<ToolDir, ToolJs>>}

InitLinks ==
  /\ links \in [LinkNames \cup {<<"x">>} -> {NoLink, [kind |-> "file", target |-> <<>>],
                              [kind |-> "dir", target |-> <<>>]}
                             \cup {LinkTo(t) : t \in LinkTargets}]
  /\ targets \in SUBSET (LinkTargets \ {<<ToolDir, ToolJs>>})
  /\ shell = "unconfigured"
  /\ call = NoOp
  /\ fs = [p \in RegFiles |-> AbsentFile]
  /\ registry = [kind |-> "absent", registrations |-> [n \in ToolNames |-> NoRecord]]
  /\ last = NoCall
  /\ prev = NoCall
  /\ nOps = 0
  /\ out = AbsentDir
  /\ origin = "none"
  /\ lastW = NoWrite

\* a createSymlink call, a script outside the output directory installed or
\* deleted, or the end of a call
NextLinks ==
  \/ /\ call = NoOp
     /\ \E name \in LinkNames, t \in LinkTargets, force \in BOOLEAN :
          CreateSymlink(name, t, force)
  \/ /\ call = NoOp
     /\ \E force \in BOOLEAN :
          CreateSymlinks(ToolDir, <<ReadmeMd, ToolJs, <<"x", ".", "j", "s">>>>, force)
  \/ \E t \in LinkTargets \ {<<ToolDir, ToolJs>>} :
       /\ targets' = IF t \in targets THEN targets \ {t} ELSE targets \cup {t}
       /\ call' = NoOp
       /\ UNCHANGED <<regVars, outVars, links, shell>>
  \/ Forget

SpecLinks == InitLinks /\ [][NextLinks]_vars

\* ------------------------------------------------------------------------
\* Specification SpecManage: one installed tool, the preset files and a
\* custom agent file, under registerEntry, registerToAll, refreshTool,
\* removeTool and removeFromRegistry calls in any order, for every state of
\* the registry backing file
\* ------------------------------------------------------------------------

\* the entry the generate command registers for a tool: its heading and a
\* description
GeneratedEntry(name) == deriveHeading(name) \o <<NL, "d", NL>>

\* the agent files: the preset files and the custom file
ManageFiles ==
  {resolvePath(PresetValues[i]) : i \in 1..Len(PresetValues)} \cup {resolvePath(CustomTarget)}

\* the directory of the tool: not installed, or written by the generate command
ManageDirs ==
  {AbsentDir,
   writeOutput(AbsentDir, <<[filename |-> ToolJs, content |-> "v1"]>>,
               FALSE, FALSE, NoFault).dir}

InitManage ==
  LET \* the claude preset file before the first call: absent, free text, or the
      \* sections of the tools a-tools and a
      ManageInitialFiles ==
        {AbsentFile, FileOf(<<"x", NL>>),
         FileOf(GeneratedEntry(NameATools) \o <<NL, NL>> \o GeneratedEntry(NameA) \o <<NL>>)}
      \* the registry backing file before the first call
      ManageRegistries ==
        {[kind |-> k, registrations |-> [n \in ToolNames |-> NoRecord]] :
           k \in {"absent", "invalid", "noRegistrations", "ok"}}
  IN
  /\ \E f \in ManageInitialFiles :
       fs = [p \in ManageFiles |->
               IF p = resolvePath(PRESETS.claude) THEN f
               ELSE [AbsentFile EXCEPT !.dir = FALSE]]
  /\ registry \in ManageRegistries
  /\ out \in ManageDirs
  /\ origin = IF out.exists THEN "writer" ELSE "none"
  /\ lastW = NoWrite
  /\ last = NoCall
  /\ prev = NoCall
  /\ nOps = 0
  /\ InitEnv

\* one more call of a registration or tool-management function
NextManage ==
  \/ /\ nOps < MaxOps
     /\ nOps' = nOps + 1
     /\ \E target \in {resolvePath(PRESETS.claude), CustomTarget},
           name \in {NameA, NameATools} :
          RegisterEntry(target, GeneratedEntry(name), name)
  \/ /\ nOps < MaxOps
     /\ nOps' = nOps + 1
     /\ \E paths \in {<<PRESETS.claude, CustomTarget>>, <<CustomTarget, CustomTarget>>},
           fault \in {NoFault, [at |-> "save", k |-> 1]} :
          RegisterToAll(paths, GeneratedEntry(NameA), NameA, fault)
  \/ /\ nOps < MaxOps
     /\ nOps' = nOps + 1
     /\ RemoveFromRegistry(NameA)
  \/ /\ nOps < MaxOps
     /\ nOps' = nOps + 1
     /\ \E dryRun \in BOOLEAN : RefreshTool(NameA, dryRun)
  \/ /\ nOps < MaxOps
     /\ nOps' = nOps + 1
     /\ \E dryRun \in BOOLEAN, fault \in {NoFault, [at |-> "write", k |-> 2]} :
          RemoveTool(NameA, NameA, dryRun, fault)
  \/ /\ nOps < MaxOps
     /\ nOps' = nOps + 1
     /\ \E name \in {<<>>, <<"b", "i", "n">>, <<".", "/", "b", "i", "n">>,
                      <<"b", "i", "n", "/">>, <<".", ".">>,
                      <<"x", "/", ".", ".", "/", "b", "i", "n">>,
                      <<".", "/">>, <<"x">>, <<".", ".", "/", "a">>},
           dryRun \in BOOLEAN :
          RemoveTool(NameA, name, dryRun, NoFault)

SpecManage == InitManage /\ [][NextManage]_vars

\* ------------------------------------------------------------------------
\* Specification SpecRun: the generate command run any number of times for
\* one tool with every choice of flags below, and writeOutput called on its
\* own, on a machine with a preset file, a custom agent file, a symlink
\* directory and a shell config
\* ------------------------------------------------------------------------

InitRun ==
  LET \* the output directory before the first run: absent, written by an earlier
      \* run, or an unmanaged directory holding a file of the user
      RunDirs ==
        ManageDirs
        \cup {[exists |-> TRUE,
               files |-> [f \in OutNames |-> IF f = ReadmeMd THEN UserFile ELSE NoFile],
               manifest |-> NoManifest]}
  IN
  /\ out \in RunDirs
  /\ origin = IF ~out.exists THEN "none"
              ELSE IF out.manifest.kind = "valid" THEN "writer" ELSE "legacy"
  /\ lastW = NoWrite
  /\ \E f \in {[AbsentFile EXCEPT !.dir = FALSE], FileOf(<<"x", NL>>)} :
       fs = [p \in ManageFiles |->
               IF p = resolvePath(PRESETS.claude) THEN f
               ELSE [AbsentFile EXCEPT !.dir = FALSE]]
  /\ registry = [kind |-> "absent", registrations |-> [n \in ToolNames |-> NoRecord]]
  /\ last = NoCall
  /\ prev = NoCall
  /\ nOps = 0
  /\ links \in [LinkNames -> {NoLink, [kind |-> "file", target |-> <<>>]}]
  /\ targets = {}
  /\ shell \in {"unconfigured", "configured"}
  /\ call = NoOp

\* a run of the generate command that stops early or reaches the output
\* phase, a writeOutput call on its own with every filesystem call
\* succeeding, or the end of a call
NextRun ==
  LET \* the file maps of the runs
      RunFileMaps ==
        {<<[filename |-> ToolJs, content |-> "v1"]>>,
         <<[filename |-> ToolJs, content |-> "v2"], [filename |-> ReadmeMd, content |-> "v2"]>>}
      \* the command lines: no flag, each wiring flag, a preset, a custom target,
      \* both, and a preset name that PRESETS inherits
      RunOptions ==
        {DefaultOptions, NoWiring,
         [DefaultOptions EXCEPT !.symlink = FALSE],
         [DefaultOptions EXCEPT !.register = FALSE],
         [DefaultOptions EXCEPT !.shellConfig = FALSE],
         [DefaultOptions EXCEPT !.forceSymlink = TRUE],
         [DefaultOptions EXCEPT !.presets = << <<"c", "l", "a", "u", "d", "e">> >>],
         [DefaultOptions EXCEPT !.registerPaths = <<CustomTarget>>,
                                !.presets = << <<"c", "l", "a", "u", "d", "e">> >>],
         [DefaultOptions EXCEPT !.presets = << <<"c", "o", "n", "s", "t", "r", "u", "c", "t", "o", "r">> >>]}
      \* the faults of the runs
      RunFaults == {NoFault, [at |-> "write", k |-> 1], [at |-> "symlinkDir", k |-> 0]}
  IN
  \/ /\ lastW = NoWrite
     /\ \E run \in MainStops, dryRun \in BOOLEAN, force \in BOOLEAN :
          Main(run.pre, force, dryRun, run.discovery, run.generation, <<>>, NoFault,
               DefaultOptions, [name |-> NameA, entry |-> GeneratedEntry(NameA)])
  \/ /\ lastW = NoWrite
     /\ \E files \in RunFileMaps, dryRun \in BOOLEAN, force \in BOOLEAN,
           fault \in RunFaults, options \in RunOptions :
          Main("ok", force, dryRun, "ok", "ok", files, fault,
               options, [name |-> NameA, entry |-> GeneratedEntry(NameA)])
  \/ /\ lastW = NoWrite
     /\ \E files \in RunFileMaps, dryRun \in BOOLEAN, force \in BOOLEAN :
          WriteOutput(files, dryRun, force, NoFault)
  \/ Return

SpecRun == InitRun /\ [][NextRun]_vars

\* ------------------------------------------------------------------------
\* Specification: registerEntry and unregisterEntry on one agent file at a
\* custom path, where a step of the call may fail: creating the directory,
\* reading the file, writing the file or saving the registry
\* ------------------------------------------------------------------------

NextFaults ==
  LET FaultEntries == {HeadA, HeadA \o <<NL, "x">>, HeadAB, <<"x">>}
  IN
  \/ /\ nOps < MaxOps
     /\ nOps' = nOps + 1
     /\ \E entry \in FaultEntries, fault \in {"none", "mkdir", "read", "write", "save"} :
          Register(CustomTarget, entry, NameA, fault)
  \/ /\ nOps < MaxOps
     /\ nOps' = nOps + 1
     /\ \E heading \in {HeadA, HeadAB}, fault \in {"none", "read", "write"} :
          Unregister(CustomTarget, heading, fault)

SpecFaults == InitReg /\ [][NextFaults]_vars

\* ------------------------------------------------------------------------
\* Specification SpecRecords: registerEntry at two custom paths for three
\* tool names, one of them a name that Object.prototype defines, over a
\* registry that is absent, empty, or holds records in the legacy shape
\* (paths and / or heading) or in the current shape
\* ------------------------------------------------------------------------

InitRecords ==
  LET \* the tool names of the registry records
      RecordNames ==
        {NameA, <<"b">>, <<"c", "o", "n", "s", "t", "r", "u", "c", "t", "o", "r">>}
      Legacy(paths, hasPaths, hasHeading) ==
        [present |-> TRUE, hasCustomPaths |-> FALSE, customPaths |-> <<>>,
         hasPaths |-> hasPaths, paths |-> paths, hasHeading |-> hasHeading]
      RecordShapes ==
        {NoRecord,
         Legacy(<<CustomTarget>>, TRUE, TRUE),
         Legacy(<<PathP, CustomTarget>>, TRUE, FALSE),
         Legacy(<<>>, FALSE, TRUE),
         [NoRecord EXCEPT !.present = TRUE, !.hasCustomPaths = TRUE,
                          !.customPaths = <<PathP>>]}
      \* the name that Object.prototype defines has no record: none can be made
      Registrations ==
        {r \in [RecordNames -> RecordShapes] :
           \A n \in RecordNames \ {NameA, <<"b">>} : r[n] = NoRecord}
  IN
  /\ \E f \in {AbsentFile, FileOf(<<"x", NL>>)} :
       fs = [p \in {resolvePath(CustomTarget), resolvePath(PathP)} |-> f]
  /\ \/ registry \in {[kind |-> "ok", registrations |-> r] : r \in Registrations}
     \/ registry = [kind |-> "absent", registrations |-> [n \in RecordNames |-> NoRecord]]
  /\ last = NoCall
  /\ prev = NoCall
  /\ nOps = 0
  /\ out = AbsentDir
  /\ origin = "none"
  /\ lastW = NoWrite
  /\ InitEnv

NextRecords ==
  /\ nOps < MaxOps
  /\ nOps' = nOps + 1
  /\ \E target \in {CustomTarget, PathP}, name \in DOMAIN registry.registrations,
        text \in {<<"d">>, <<"e">>} :
       RegisterEntry(target, deriveHeading(name) \o <<NL>> \o text \o <<NL>>, name)

SpecRecords == InitRecords /\ [][NextRecords]_vars

\* ------------------------------------------------------------------------
\* Specification SpecEntries: the agent file of SpecTools, where the entry
\* of the generate command (generateAgentsEntry) and the basic entry of
\* refresh (generateBasicEntry) are registered for the same tools, and
\* sections are removed by the derived heading
\* ------------------------------------------------------------------------

NextEntries ==
  LET \* the tool groups of a generation, by file name
      GroupLists == {<<>>, <<[filename |-> <<"x", ".", "j", "s">>], [filename |-> ToolJs]>>}
      \* package descriptions: none, a sentence, a text with a heading line
      \* of its own
      Descriptions == {Null, <<"d">>, <<"d", NL>> \o HeadAB}
  IN
  \/ /\ nOps < MaxOps
     /\ nOps' = nOps + 1
     /\ \E name \in ToolNames, groups \in GroupLists, description \in Descriptions :
          Register(CustomTarget, generateAgentsEntry(name, groups, description), name, "none")
  \/ /\ nOps < MaxOps
     /\ nOps' = nOps + 1
     /\ \E name \in ToolNames, scripts \in {<<>>, <<ToolJs>>} :
          Register(CustomTarget, generateBasicEntry(name, scripts), name, "none")
  \/ /\ nOps < MaxOps
     /\ nOps' = nOps + 1
     /\ \E name \in ToolNames : Unregister(CustomTarget, getToolHeading(name), "none")

SpecEntries == InitTools /\ [][NextEntries]_vars

\* ------------------------------------------------------------------------
\* Specification SpecLocate: the agent file of SpecReg, where sections are
\* looked up by any string: a heading, the empty string, free text, part of
\* a heading, and strings that hold a line terminator
\* ------------------------------------------------------------------------

NextLocate ==
  LET LocateHeadings ==
        {HeadA, HeadAB, <<>>, <<"x">>, <<"A">>, <<"#", " ">>,
         <<NL>>, <<"y", NL, NL>>, <<"y", NL, NL>> \o HeadAB}
  IN
  \/ /\ nOps < MaxOps
     /\ nOps' = nOps + 1
     /\ \E entry \in {HeadA \o <<NL, "x">>, HeadAs, <<"x">>} :
          Register(CustomTarget, entry, NameA, "none")
  \/ /\ nOps < MaxOps
     /\ nOps' = nOps + 1
     /\ \E heading \in LocateHeadings : Unregister(CustomTarget, heading, "none")

SpecLocate == InitReg /\ [][NextLocate]_vars

\* ------------------------------------------------------------------------
\* Vocabulary of the claims about one agent file
\* ------------------------------------------------------------------------

\* the agent file of SpecReg, now
RegFile == fs[resolvePath(CustomTarget)]

\* text of a file, empty when the file does not exist
TextOf(file) == IF file.exists THEN file.content ELSE <<>>

\* s is a prefix of t
IsPrefix(s, t) == Len(s) <= Len(t) /\ SubSeq(t, 1, Len(s)) = s

\* offsets where a level-3 section starts: "###" and a blank at a line start
SectionStarts(doc) ==
  {i \in 0..(Len(doc) - 1) :
     /\ (i = 0 \/ doc[i] = NL)
     /\ MatchesAt(doc, H3, i)
     /\ i + 3 < Len(doc)
     /\ IsSpace(doc[i + 4])}

\* the heading line of the section that starts at offset i
HeadingLineAt(doc, i) == Slice(doc, i, EndOfLine(doc, i))

\* the text of the section that starts at offset i, up to the next section
\* or the end of the document, without its trailing newlines
SectionTextAt(doc, i) ==
  LET next == NextHeadingIndex(doc, i)
  IN  Slice(doc, i, TrimEnd(doc, i, IF next # -1 THEN next ELSE Len(doc)))

\* the last call repeats the call before it: same operation and arguments
Repeats ==
  /\ last.op = prev.op
  /\ last.target = prev.target
  /\ last.entry = prev.entry
  /\ last.heading = prev.heading
  /\ last.name = prev.name

\* ------------------------------------------------------------------------
\* Claims
\* ------------------------------------------------------------------------

\* C1: idempotence of register. When a registerEntry call of an entry that
\* contains a level-3 heading line returned created or updated and the same
\* call is made again, the second call returns unchanged and the file's bytes
\* after it equal its bytes after the first call.
C1_Idempotence ==
  (/\ last.op = "register" /\ prev.op = "register" /\ Repeats
   /\ last.heading # Null
   /\ prev.status \in {"created", "updated"})
  => (last.status = "unchanged" /\ RegFile = last.before)

\* C2: no duplication. After N >= 1 consecutive registerEntry calls whose
\* entries all have identifying heading H, started on a file without H, the
\* file contains exactly one occurrence of H.
C2_NoDuplication ==
  last.run # Null => CountOccurrences(RegFile.content, last.run) = 1

\* C3: frame of register. On updated the new file is old[0:start] + trimmed
\* entry + old[end:] for the span findSectionByHeading returned; on created
\* the old content is a prefix of the new; on unchanged the file is not
\* written; so every other ### section and the free text in front of the
\* sections are the same before and after a replacement.
C3_Frame ==
  LET \* every section of old whose heading line is not heading is a section of
      \* new with the same text, and the free text in front is kept
      OthersKept(old, new, heading) ==
        LET \* the free text in front of the first section
            Preamble(doc) ==
              LET st == SectionStarts(doc)
              IN  IF st = {} THEN doc
                  ELSE Slice(doc, 0, CHOOSE i \in st : \A j \in st : i <= j)
        IN
        /\ \A i \in SectionStarts(old) :
             HeadingLineAt(old, i) # heading =>
               \E j \in SectionStarts(new) : SectionTextAt(new, j) = SectionTextAt(old, i)
        /\ IsPrefix(Preamble(old), new)
  IN
  last.op = "register" =>
    LET old == TextOf(last.before)
        new == RegFile.content
        sec == findSectionByHeading(old, last.heading)
    IN  /\ last.status = "updated" =>
             /\ sec.found
             /\ new = Slice(old, 0, sec.start) \o Trim(last.entry)
                      \o Slice(old, sec.end, Len(old))
        /\ last.status = "created" => IsPrefix(old, new)
        /\ last.status = "unchanged" => (~last.wrote /\ RegFile = last.before)
        /\ last.status = "updated" => OthersKept(old, new, last.heading)

\* C5: containment round trip. registerEntry of an entry with identifying
\* heading H into a document D without H, followed at once by
\* unregisterEntry of H, leaves D up to collapsing of newline runs and
\* trimming.
C5_RoundTrip ==
  LET \* a text up to collapsing of newline runs and trimming
      Normalized(text) == Trim(CollapseNewlines(text))
  IN
  (/\ prev.op = "register" /\ prev.heading # Null
   /\ CountOccurrences(TextOf(prev.before), prev.heading) = 0
   /\ prev.status = "created"
   /\ last.op = "unregister" /\ last.heading = prev.heading
   /\ last.target = prev.target)
  => Normalized(RegFile.content) = Normalized(TextOf(prev.before))

\* the texts of the sections of doc whose heading line is exactly heading
SectionsHeaded(doc, heading) ==
  {SectionTextAt(doc, i) : i \in {j \in SectionStarts(doc) : HeadingLineAt(doc, j) = heading}}

\* C4: a derived heading addresses its own tool's section only. In a file
\* that holds the registered section of tool b, registerEntry with the entry
\* of another tool a and unregisterEntry with a's heading leave b's section
\* as it was.
C4_OwnSectionOnly ==
  (last.op \in {"register", "unregister"} /\ last.status # "error") =>
    \A b \in ToolNames :
      getToolHeading(b) # last.heading =>
        SectionsHeaded(TextOf(last.before), getToolHeading(b))
          = SectionsHeaded(RegFile.content, getToolHeading(b))

Range(list) == {list[i] : i \in 1..Len(list)}

\* the last call was a forced, non-dry writeOutput that returned
ForcedWrite ==
  /\ lastW.op = "writeOutput" /\ lastW.force /\ ~lastW.dryRun /\ ~lastW.threw

\* C7: user-file preservation on one forced rewrite. After
\* writeOutput(dir, F, force) on a directory with a valid manifest listing
\* M, every file that was not listed in M is present with the content it
\* had, every file of M that is not a key of F is absent, and every key of
\* F is present with its new content.
C7_UserFilesKept ==
  LET \* the directory holds the file with this content; the manifest file holds a
      \* text handed to the writer when it is not a manifest
      Holds(d, filename, content) ==
        IF filename = MANIFEST_FILE THEN d.manifest.kind = "invalid"
        ELSE d.files[filename].exists /\ d.files[filename].content = content
  IN
  (ForcedWrite /\ lastW.before.exists /\ lastW.before.manifest.kind = "valid") =>
    LET M == Range(lastW.before.manifest.files)
        F == lastW.files
    IN  /\ \A u \in OutNames \ M :
             lastW.before.files[u].exists => out.files[u] = lastW.before.files[u]
        /\ \A f \in M \ Range(Keys(F)) : ~out.files[f].exists
        /\ \A i \in 1..Len(F) : Holds(out, F[i].filename, F[i].content)

\* C8: user files survive every re-run. In a directory that writeOutput
\* created, where since then only the writer ran and the user added files, a
\* forced call of the writer never deletes a file the user added, also when
\* an earlier call failed part-way.
C8_UserFilesSurvive ==
  (lastW.op \in {"writeOutput", "main"} /\ lastW.force /\ lastW.originBefore = "writer") =>
    \A u \in OutNames :
      lastW.before.files[u] = UserFile => out.files[u].exists

\* C9: manifest correctness. After a writeOutput call that is not a dry run
\* and returns normally, the manifest exists, lists the keys of the files
\* argument without the manifest's own name, every listed file exists and
\* every listed .js or .sh file is executable.
C9_ManifestCorrect ==
  LET \* the names that end in .js or .sh
      ScriptNames == {ToolJs, SetupSh}
  IN
  (lastW.op = "writeOutput" /\ ~lastW.dryRun /\ ~lastW.threw) =>
    /\ out.exists
    /\ out.manifest.kind = "valid"
    /\ Range(out.manifest.files) = Range(Keys(lastW.files)) \ {MANIFEST_FILE}
    /\ \A f \in Range(out.manifest.files) :
         /\ out.files[f].exists
         /\ f \in ScriptNames => out.files[f].exec

\* C9 witness: a forced write over a managed directory that holds a user
\* file returned, and listed a script
C9_Witness ==
  /\ ForcedWrite
  /\ lastW.before.manifest.kind = "valid"
  /\ \E u \in OutNames : lastW.before.files[u] = UserFile
  /\ ToolJs \in Range(out.manifest.files)
  /\ MANIFEST_FILE \in Range(Keys(lastW.files))

\* C10: refusal without force. On an existing directory, with or without a
\* manifest, writeOutput without force and not as a dry run throws an error
\* that tells to use --force and changes nothing; the generate command run
\* so exits with code 5 and changes nothing.
C10_RefusalWithoutForce ==
  (lastW.before.exists /\ ~lastW.force /\ ~lastW.dryRun) =>
    /\ lastW.op = "writeOutput" =>
         /\ lastW.threw
         /\ lastW.message = "Use --force to overwrite"
         /\ out = lastW.before
    /\ (lastW.op = "main" /\ lastW.pre = "ok") =>
         /\ lastW.exit = EXIT_OUTPUT_FAILED
         /\ out = lastW.before

\* C10 witness: writeOutput refused to write into a managed directory that
\* holds files
C10_Witness ==
  /\ lastW.op = "writeOutput" /\ ~lastW.force /\ ~lastW.dryRun
  /\ lastW.threw
  /\ lastW.before.manifest.kind = "valid"
  /\ lastW.before.files[ToolJs].exists
  /\ Len(lastW.files) > 0

\* C12: unmanaged or corrupt-manifest directory under force. When the
\* directory exists and its manifest file is missing, is not JSON, or is
\* JSON without a files list, a forced writeOutput whose filesystem calls
\* succeed does not throw; it replaces the whole directory, which then holds
\* exactly the written files and a fresh manifest.
C12_UnmanagedReplaced ==
  (/\ lastW.op = "writeOutput" /\ lastW.force /\ ~lastW.dryRun
   /\ lastW.fault = NoFault
   /\ lastW.before.exists
   /\ lastW.before.manifest.kind \in {"absent", "invalid", "noFiles"}) =>
    /\ ~lastW.threw
    /\ out.exists
    /\ \A f \in OutNames : out.files[f].exists <=> f \in Range(Keys(lastW.files))
    /\ out.manifest = createManifest(Keys(lastW.files))

\* ------------------------------------------------------------------------
\* Claims about the configuration policy
\* ------------------------------------------------------------------------

\* a list without repeated elements
NoDuplicates(list) == \A i, j \in 1..Len(list) : list[i] = list[j] => i = j

\* the preset files that exist, in priority order pi, claude, codex, gemini
ExistingPresets ==
  SelectSeq(<<PRESETS.pi, PRESETS.claude, PRESETS.codex, PRESETS.gemini>>,
            LAMBDA p : fs[resolvePath(p)].exists)

\* the local agent file: CLAUDE.md of the working directory when it exists,
\* AGENTS.md of the working directory otherwise
LocalFile ==
  IF fs[<<"w", "CLAUDE.md">>].exists THEN <<"w", "CLAUDE.md">> ELSE <<"w", "AGENTS.md">>

KnownPreset(name) ==
  \E k \in DOMAIN PRESETS : PresetKeys[k] = [i \in 1..Len(name) |-> ToLowerCase(name[i])]

\* C20: mergeWithCli makes registerPaths the duplicate-free union of the
\* --register-path values and the files of the known --preset names when
\* that union is not empty, keeps the config file's registerPaths when it is
\* empty (an unknown preset name contributes nothing), and sets register to
\* false whenever the command line passes register=false.
C20_MergeWithCli ==
  LET \* the file of a known preset
      PresetFile(name) ==
        PRESETS[CHOOSE k \in DOMAIN PRESETS :
                  PresetKeys[k] = [i \in 1..Len(name) |-> ToLowerCase(name[i])]]
  IN
  call.op = "mergeWithCli" =>
    LET options == call.options
        union   == Range(options.registerPaths)
                   \cup {PresetFile(n) : n \in {m \in Range(options.presets) : KnownPreset(m)}}
    IN  /\ union # {} =>
             /\ Range(call.result.registerPaths) = union
             /\ NoDuplicates(call.result.registerPaths)
        /\ union = {} => call.result.registerPaths = call.config.registerPaths
        /\ options.register = FALSE => call.result.register = FALSE

\* ------------------------------------------------------------------------
\* Claims about the symlink directory
\* ------------------------------------------------------------------------

\* C19: createSymlink on an existing symbolic link returns unchanged and
\* leaves the link alone when it already points to the target; when it
\* points elsewhere, whether that other target exists or not, the link is
\* replaced: it points to the target afterwards and the result is created.
C19_CreateSymlink ==
  (call.op = "createSymlink" /\ call.before.kind = "symlink") =>
    IF call.before.target = call.targetPath
    THEN /\ call.success /\ call.action = "unchanged"
         /\ links[call.name] = call.before
    ELSE /\ call.success /\ call.action = "created"
         /\ links[call.name] = LinkTo(call.targetPath)

\* ------------------------------------------------------------------------
\* Claims about the registry, batches and the tool manager
\* ------------------------------------------------------------------------

\* the four preset files, as files of the disk
PresetFiles == {resolvePath(p) : p \in PRESET_PATHS}

\* the custom paths recorded for a tool in a registry backing file
RecordedPaths(reg, name) ==
  IF reg.kind # "ok" \/ ~reg.registrations[name].present THEN <<>>
  ELSE IF reg.registrations[name].hasCustomPaths THEN reg.registrations[name].customPaths
  ELSE reg.registrations[name].paths

\* C14: preset registrations are never persisted in the registry. After any
\* sequence of registerEntry, registerToAll, refreshTool and removeTool
\* calls no record's customPaths holds a path that denotes one of the four
\* preset files, and a registration into a preset file, by generation or by
\* refresh, leaves the registry as it was.
C14_PresetsNotPersisted ==
  /\ \A n \in ToolNames :
       \A i \in 1..Len(registry.registrations[n].customPaths) :
         resolvePath(registry.registrations[n].customPaths[i]) \notin PresetFiles
  /\ (call.op = "registerEntry" /\ resolvePath(call.paths[1]) \in PresetFiles) =>
       registry = call.registryBefore
  /\ (call.op = "refreshTool" /\ call.registrationAction = "updated") =>
       registry = call.registryBefore

\* C15: registry tolerance. Whether the registry backing file is absent, is
\* not JSON or is JSON without a registrations object, a registration to a
\* custom path and a removeFromRegistry call do not raise and end as they
\* end on an empty registry: same result, same file, same registry.
C15_RegistryTolerance ==
  LET \* a registry backing file without any record
      EmptyRegistry == [kind |-> "ok", registrations |-> [n \in ToolNames |-> NoRecord]]
  IN
  (/\ call.op \in {"registerEntry", "removeFromRegistry"}
   /\ call.registryBefore.kind \in {"absent", "invalid", "noRegistrations"}) =>
    /\ ~call.raised
    /\ (call.op = "registerEntry" /\ call.paths[1] \notin PRESET_PATHS) =>
         LET path  == resolvePath(call.paths[1])
             empty == registerEntry(call.fsBefore[path], EmptyRegistry, call.paths[1],
                                    call.entry, call.name, "none")
         IN  /\ call.results[1].action = empty.status
             /\ fs[path] = empty.file
             /\ registry = empty.registry
    /\ call.op = "removeFromRegistry" =>
         RecordedPaths(registry, call.name) = <<>>

\* C16: batch independence. registerToAll does not raise, returns one
\* result per input path in input order, and a path that ends in error
\* neither stops nor alters the paths after it: a path that only follows
\* paths that ended in error gets the result and the file content it gets
\* when it is registered alone.
C16_BatchIndependence ==
  call.op = "registerToAll" =>
    /\ ~call.raised
    /\ Len(call.results) = Len(call.paths)
    /\ \A j \in 1..Len(call.paths) : call.results[j].path = call.paths[j]
    /\ \A j \in 2..Len(call.paths) :
         (\A i \in 1..(j - 1) : call.results[i].action = "error") =>
           LET path  == resolvePath(call.paths[j])
               alone == registerEntry(call.fsBefore[path], call.registryBefore,
                                      call.paths[j], call.entry, call.name,
                                      IF call.fault.k = j THEN call.fault.at ELSE "none")
           IN  /\ call.results[j].action = alone.status
               /\ (\A l \in (j + 1)..Len(call.paths) : resolvePath(call.paths[l]) # path) =>
                    fs[path] = alone.file

\* C17: removal erases all traces. After removeTool returned success
\* outside a dry run the registry has no record of the tool, the tool
\* directory is gone, and no preset file and no custom path recorded for the
\* tool holds a section headed by the tool's heading; the record is dropped
\* only after unregisterEntry ran on every preset path and every recorded
\* custom path.
C17_RemovalErasesAll ==
  (call.op = "removeTool" /\ ~call.dryRun /\ call.success) =>
    /\ RecordedPaths(registry, call.name) = <<>>
    /\ ~out.exists
    /\ \A p \in PresetFiles
              \cup {resolvePath(q) : q \in Range(RecordedPaths(call.registryBefore, call.name))} :
         SectionsHeaded(TextOf(fs[p]), getToolHeading(call.name)) = {}
    /\ call.dropped =>
         Len(call.actions)
           = Len(PresetValues) + Len(RecordedPaths(call.registryBefore, call.name))

\* ------------------------------------------------------------------------
\* Vocabulary of the claims about the generate command
\* ------------------------------------------------------------------------

\* the run of the generate command that has just ended
RunEnded == lastW.op = "main" /\ lastW.pre = "ok"

\* nothing outside the output directory has changed in the run
RunLeftWiring ==
  /\ fs = lastW.fsBefore
  /\ registry = lastW.registryBefore
  /\ links = lastW.linksBefore
  /\ shell = lastW.shellBefore

\* C18: the generate command starts its phases in the order discovery,
\* grouping, generation, output write, symlink creation, registration; when
\* discovery fails the run exits with 3, when generation fails with 4, when
\* the output write fails with 5, each time with no later phase started and
\* nothing outside the output directory changed; symlinks and registrations
\* are only made after a successful output write; a run in which no phase
\* fails exits with 0.
C18_PipelineOrder ==
  RunEnded =>
    LET phases == lastW.phases
        started(phase) == \E i \in DOMAIN phases : phases[i] = phase
        \* the phases in pipeline order, and the position of a phase in it
        PhaseOrder == <<"discovery", "grouping", "generation", "output", "symlink", "shellConfig",
                        "registration">>
        PhaseRank(phase) == CHOOSE k \in DOMAIN PhaseOrder : PhaseOrder[k] = phase
        \* what writeOutput did in the run
        RunWrite == writeOutput(lastW.before, lastW.files, lastW.dryRun, lastW.force,
                                lastW.fault)
    IN  /\ \A i, j \in DOMAIN phases :
             i < j => PhaseRank(phases[i]) < PhaseRank(phases[j])
        /\ (started("discovery") /\ lastW.discovery = "failed")
             => lastW.exit = EXIT_DISCOVERY_FAILED /\ phases = <<"discovery">> /\ RunLeftWiring
                /\ out = lastW.before
        /\ (started("generation") /\ lastW.generation = "failed")
             => lastW.exit = EXIT_GENERATION_FAILED /\ ~started("output") /\ ~started("symlink")
                /\ ~started("registration") /\ RunLeftWiring /\ out = lastW.before
        /\ (started("output") /\ RunWrite.threw)
             => lastW.exit = EXIT_OUTPUT_FAILED /\ ~started("symlink") /\ ~started("shellConfig")
                /\ ~started("registration") /\ RunLeftWiring
        /\ (started("symlink") \/ started("registration") \/ ~RunLeftWiring)
             => /\ started("discovery") /\ started("grouping") /\ started("generation")
                /\ started("output") /\ ~RunWrite.threw
                /\ lastW.discovery = "ok" /\ lastW.generation = "ok"
        /\ (/\ started("discovery") /\ lastW.discovery = "ok" /\ lastW.generation = "ok"
            /\ ~RunWrite.threw /\ lastW.fault.at = "none"
            /\ \A i \in DOMAIN lastW.options.presets : KnownPreset(lastW.options.presets[i]))
             => lastW.exit = EXIT_SUCCESS

\* C18 witness: a run that made a symlink and registered the tool in an
\* agent file after writing the output, and exited with 0
C18_Witness ==
  /\ RunEnded
  /\ lastW.exit = EXIT_SUCCESS
  /\ lastW.phases = <<"discovery", "grouping", "generation", "output", "symlink", "shellConfig", "registration">>
  /\ links # lastW.linksBefore
  /\ fs # lastW.fsBefore
  /\ registry # lastW.registryBefore
  /\ out # lastW.before

\* C11: a dry run changes nothing: writeOutput with dryRun leaves the output
\* directory as it was, whether it was absent, unmanaged or managed and
\* whatever force is, and the generate command then leaves the symlink
\* directory, the shell config, the agent files and the registry as they
\* were.
C11_DryRunMutatesNothing ==
  (lastW.op # "none" /\ lastW.dryRun) =>
    /\ out = lastW.before
    /\ lastW.op = "main" => RunLeftWiring

\* C11 witness: a dry run with --force and the default wiring that went
\* through the output phase and exited with 0, over a managed directory whose
\* files differ from the generated ones, no symlink made yet, the shell not
\* configured and an agent file of a preset present
C11_Witness ==
  /\ RunEnded
  /\ lastW.dryRun /\ lastW.force
  /\ lastW.exit = EXIT_SUCCESS
  /\ lastW.options = DefaultOptions
  /\ lastW.before.exists /\ lastW.before.manifest.kind = "valid"
  /\ \E i \in DOMAIN lastW.files :
       lastW.before.files[lastW.files[i].filename].content # lastW.files[i].content
  /\ \E l \in LinkNames : links[l] = NoLink
  /\ shell = "unconfigured"
  /\ fs[resolvePath(PRESETS.claude)].exists

\* ------------------------------------------------------------------------
\* Claims about failing calls and about the registry records
\* ------------------------------------------------------------------------

\* C21: per-target atomicity. Whenever a registerEntry or unregisterEntry
\* call returns status error, whichever step failed (directory creation,
\* read, file write or registry save), the target file exists as before and
\* its content is the same as before the call, and the call did not write it.
C21_FailsAtomically ==
  (last.op \in {"register", "unregister"} /\ last.status = "error") =>
    /\ ~last.wrote
    /\ RegFile.exists = last.before.exists
    /\ TextOf(RegFile) = TextOf(last.before)

\* C22: registry record shape. After a registration at a custom path that
\* created or updated a section, starting from an absent or empty registry
\* or from a legacy record (paths and / or heading), the tool's record has a
\* customPaths list without duplicates that keeps the order of first
\* insertion (the paths recorded before, then the new path unless it was
\* among them), so it holds every legacy path; it has no paths or heading
\* field left; and the records of all other tools are as before the call.
C22_RecordShape ==
  (/\ call.op = "registerEntry"
   /\ call.paths[1] \notin PRESET_PATHS
   /\ call.results[1].action \in {"created", "updated"}) =>
    LET rec    == registry.registrations[call.name]
        before == RecordedPaths(call.registryBefore, call.name)
    IN  /\ registry.kind = "ok"
        /\ rec.present /\ rec.hasCustomPaths
        /\ NoDuplicates(rec.customPaths)
        /\ rec.customPaths = IF Includes(before, call.paths[1]) THEN before
                             ELSE Append(before, call.paths[1])
        /\ ~rec.hasPaths /\ ~rec.hasHeading
        /\ \A n \in DOMAIN registry.registrations \ {call.name} :
             registry.registrations[n]
               = loadRegistry(call.registryBefore).registrations[n]

\* ------------------------------------------------------------------------
\* Claims about refresh and about what batch calls report
\* ------------------------------------------------------------------------

\* C23: refresh reaches every registration. After a refreshTool(name) call
\* that is not a dry run, in every file where the tool was registered (every
\* preset file holding its heading, and every custom path recorded for it in
\* the registry whose file holds its heading) the tool's section is the
\* regenerated entry; and a registration is added only when the tool was
\* registered in none of those files.
C23_RefreshReachesAll ==
  (call.op = "refreshTool" /\ call.success /\ ~call.dryRun) =>
    LET heading  == getToolHeading(call.name)
        entry    == generateBasicEntry(call.name, Scripts(call.dirBefore))
        recorded == RecordedPaths(call.registryBefore, call.name)
        Holds(f) == f.exists /\ findSectionByHeading(f.content, heading).found
        places   == {p \in PresetFiles : Holds(call.fsBefore[p])}
                    \cup {resolvePath(recorded[i]) : i \in
                            {j \in 1..Len(recorded) :
                               Holds(call.fsBefore[resolvePath(recorded[j])])}}
    IN  /\ \A p \in places :
             findSectionByHeading(fs[p].content, heading).content = Trim(entry)
        /\ call.registrationAction = "added" => places = {}

\* C24: auditable batch reporting. The outcome reported for a target is the
\* one that occurred there: a registerToAll result of created or updated
\* goes with a changed file, a result of unchanged with an unchanged file,
\* and a target whose registerEntry call failed is reported as error; a
\* refreshTool call (not a dry run) that leaves every agent file as it was
\* does not report its registration as updated.
C24_ReportsWhatHappened ==
  LET Same(p) == /\ fs[p].exists = call.fsBefore[p].exists
                 /\ TextOf(fs[p]) = TextOf(call.fsBefore[p])
  IN
  /\ call.op = "registerToAll" =>
       \A j \in 1..Len(call.paths) :
         /\ call.fault.k = j => call.results[j].action = "error"
         /\ (\A i \in 1..Len(call.paths) : call.paths[i] = call.paths[j] => i = j) =>
              /\ call.results[j].action \in {"created", "updated"}
                   => ~Same(resolvePath(call.paths[j]))
              /\ call.results[j].action = "unchanged"
                   => Same(resolvePath(call.paths[j]))
  /\ (call.op = "refreshTool" /\ ~call.dryRun /\ call.registrationAction = "updated") =>
       \E p \in DOMAIN fs : ~Same(p)

\* ------------------------------------------------------------------------
\* Claims about the headings of the generated entries
\* ------------------------------------------------------------------------

\* C25: one heading per tool name across all producers. Whatever the groups,
\* the script list and the package description, the identifying heading
\* extracted from the entry that generateAgentsEntry or generateBasicEntry
\* makes for a name is deriveHeading(name), the heading by which refresh,
\* listing and removal address the section; so two entries registered for
\* the same name have the same heading.
C25_OneHeadingPerName ==
  /\ last.op = "register" => last.heading = deriveHeading(last.name)
  /\ (last.op = "register" /\ prev.op = "register" /\ last.name = prev.name) =>
       last.heading = prev.heading

\* C25 witness: the entry of the generate command for a-tools, with a
\* package description that holds a heading line, replaced the section that
\* the basic entry of a-tools had created
C25_Witness ==
  /\ prev.op = "register" /\ prev.status = "created"
  /\ prev.entry = generateBasicEntry(NameATools, <<ToolJs>>)
  /\ last.op = "register" /\ last.status = "updated"
  /\ last.entry = generateAgentsEntry(NameATools, <<>>, <<"d", NL>> \o HeadAB)
  /\ last.heading = H3 \o <<" ", "A", " ", "T", "o", "o", "l", "s", " ", "T", "o", "o", "l", "s">>

\* ------------------------------------------------------------------------
\* Claims about appended entries and about the section locator
\* ------------------------------------------------------------------------

\* C26: anonymous entries are append-only. A registerEntry call of an entry
\* without identifying heading returns created; the new content starts with
\* the whole old content, nothing of it matched or replaced, and ends with
\* the trimmed entry and a newline that lie after the old content (so N
\* calls leave N copies); and the registry is left as it was, although the
\* target is a custom path.
C26_AnonymousAppendOnly ==
  [][(/\ nOps' = nOps + 1
      /\ last'.op = "register"
      /\ last'.heading = Null) =>
       LET old     == TextOf(fs[resolvePath(last'.target)])
           new     == fs'[resolvePath(last'.target)]
           trimmed == Trim(last'.entry)
       IN  /\ last'.status = "created"
           /\ new.exists
           /\ IsPrefix(old, new.content)
           /\ EndsWith(new.content, trimmed \o <<NL>>)
           /\ Len(new.content) >= Len(old) + Len(trimmed) + 1
           /\ registry' = registry]_vars

\* C26 witness: the same entry without heading was registered twice at the
\* custom path, and the file holds two copies of it after the old text
C26_Witness ==
  /\ Repeats
  /\ last.op = "register" /\ last.heading = Null /\ last.status = "created"
  /\ last.target \notin PRESET_PATHS
  /\ prev.before.exists /\ Len(prev.before.content) > 0
  /\ Len(Trim(last.entry)) > 0
  /\ CountOccurrences(RegFile.content, Trim(last.entry))
       >= CountOccurrences(prev.before.content, Trim(last.entry)) + 2
  /\ registry.kind = "absent"

\* C27: append layout. When registerEntry returns created, the new content
\* is old content + separator + trimmed entry + one newline, the separator
\* being empty if the old content is empty or ends with two newlines, one
\* newline if it ends with exactly one newline, and two newlines otherwise;
\* the file then ends with exactly one trailing newline; and from an empty
\* or absent file the content is the trimmed entry and one newline.
C27_AppendLayout ==
  (last.op = "register" /\ last.status = "created") =>
    LET old       == TextOf(last.before)
        trimmed   == Trim(last.entry)
        separator == IF Len(old) = 0 \/ EndsWith(old, <<NL, NL>>) THEN <<>>
                     ELSE IF EndsWith(old, <<NL>>) THEN <<NL>>
                     ELSE <<NL, NL>>
    IN  /\ RegFile.exists
        /\ RegFile.content = old \o separator \o trimmed \o <<NL>>
        /\ EndsWith(RegFile.content, <<NL>>)
        /\ ~EndsWith(RegFile.content, <<NL, NL>>)
        /\ Len(old) = 0 => RegFile.content = trimmed \o <<NL>>

\* what C28 says of findSectionByHeading(doc, heading): none exactly when
\* the heading does not occur; otherwise start is the offset of the first
\* occurrence, 0 <= start <= end <= length, content is doc[start:end], no
\* line after the start begins a level-3 heading inside the span, after the
\* span come only newlines up to a line that begins a level-3 heading or up
\* to the end, and the span does not end with a newline unless it is empty
SectionSpan(doc, heading) ==
  LET section == findSectionByHeading(doc, heading)
      occurs  == \E i \in 0..(Len(doc) - Len(heading)) : MatchesAt(doc, heading, i)
      \* offsets at or after the end of the span that hold no newline
      after   == {i \in section.end..(Len(doc) - 1) : doc[i + 1] # NL}
  IN  /\ section.found <=> occurs
      /\ section.found =>
           /\ MatchesAt(doc, heading, section.start)
           /\ \A i \in 0..(section.start - 1) : ~MatchesAt(doc, heading, i)
           /\ 0 <= section.start
           /\ section.start <= section.end
           /\ section.end <= Len(doc)
           /\ section.content = Slice(doc, section.start, section.end)
           /\ \A j \in SectionStarts(doc) : ~(section.start < j /\ j < section.end)
           /\ after # {} => (CHOOSE i \in after : \A k \in after : i <= k) \in SectionStarts(doc)
           /\ section.end > section.start => doc[section.end] # NL

C29_NeverClobbers ==
  /\ (call.op = "createSymlink" /\ call.before.kind \in {"file", "dir"}) =>
       /\ ~call.force => (~call.success /\ links[call.name] = call.before)
       /\ (call.force /\ call.before.kind = "file") =>
            (call.success /\ links[call.name] = LinkTo(call.targetPath))
       /\ links[call.name] # call.before => call.force
  /\ call.op = "createSymlinks" =>
       \A i \in 1..Len(call.keys) :
         EndsWith(call.keys[i], <<".", "j", "s">>) =>
           LET name == getSymlinkName(call.keys[i])
           IN  /\ (call.before[name].kind \in {"file", "dir"} /\ ~call.force) =>
                    links[name] = call.before[name]
               /\ (call.before[name].kind \in {"file", "dir"} /\ links[name] # call.before[name])
                    => call.force
               /\ call.before[name] = NoLink =>
                    links[name] = LinkTo(<<call.outputDir, call.keys[i]>>)

\* C29 witness: createSymlinks without force found a file of the user at the
\* link path of the first script and nothing at the link path of the second;
\* the file is still there and the second script has its link
C29_Witness ==
  /\ call.op = "createSymlinks" /\ ~call.force
  /\ call.before[getSymlinkName(ToolJs)].kind = "file"
  /\ links[getSymlinkName(ToolJs)].kind = "file"
  /\ call.before[<<"x">>] = NoLink
  /\ links[<<"x">>] = LinkTo(<<ToolDir, <<"x", ".", "j", "s">>>>)

\* C30: removal is confined to tool directories. removeTool(name) returns
\* failure and changes nothing (agent files, registry, tool directory,
\* links) whenever name is empty or join(AGENT_TOOLS_DIR, name) denotes the
\* symlink directory ~/agent-tools/bin or anything that is not an existing
\* directory strictly inside ~/agent-tools; and what removeTool deletes is
\* never ~/agent-tools/bin, ~/agent-tools or a path outside ~/agent-tools.
C30_RemovalConfined ==
  call.op = "removeTool" =>
    LET strictlyInside ==
          /\ Len(call.toolPath) > Len(AGENT_TOOLS_DIR)
          /\ SubSeq(call.toolPath, 1, Len(AGENT_TOOLS_DIR)) = AGENT_TOOLS_DIR
        isBin == call.toolPath = AGENT_TOOLS_DIR \o <<<<"b", "i", "n">>>>
        existingDir == call.at = "bin" \/ (call.at = "tool" /\ call.dirBefore.exists)
    IN  /\ (call.name = <<>> \/ isBin \/ ~strictlyInside \/ ~existingDir) =>
             /\ ~call.success /\ ~call.raised
             /\ fs = call.fsBefore
             /\ registry = call.registryBefore
             /\ out = call.dirBefore
             /\ links = call.linksBefore
        /\ call.dropped => (strictlyInside /\ ~isBin)

====
